---- MODULE Spec2Model ----
(***************************************************************************)
(* ThreatLens: deterministic risk scoring (analyze-alert), the narrative   *)
(* provider loop, and alert correlation / incident deduplication           *)
(* (analyze-alert runCorrelation and the process-alerts batch) over the    *)
(* alerts, incidents and alert_incident_map tables.                        *)
(***************************************************************************)
EXTENDS Integers, Sequences, FiniteSets, Bags, TLC

(***************************************************************************)
(* JavaScript strings.  TLC strings support Len, SubSeq and \o.            *)
(***************************************************************************)

\* JS `undefined` for a string-typed property of the request body.
Undefined == "undefined"

\* s[i], or the empty string past the end (s[i] is undefined there)
CharAt(s, i) == IF i >= 1 /\ i <= Len(s) THEN SubSeq(s, i, i) ELSE ""

LowerChar(c) ==
  CASE c = "A" -> "a" [] c = "B" -> "b" [] c = "C" -> "c" [] c = "D" -> "d"
    [] c = "E" -> "e" [] c = "F" -> "f" [] c = "G" -> "g" [] c = "H" -> "h"
    [] c = "I" -> "i" [] c = "J" -> "j" [] c = "K" -> "k" [] c = "L" -> "l"
    [] c = "M" -> "m" [] c = "N" -> "n" [] c = "O" -> "o" [] c = "P" -> "p"
    [] c = "Q" -> "q" [] c = "R" -> "r" [] c = "S" -> "s" [] c = "T" -> "t"
    [] c = "U" -> "u" [] c = "V" -> "v" [] c = "W" -> "w" [] c = "X" -> "x"
    [] c = "Y" -> "y" [] c = "Z" -> "z" [] OTHER -> c

RECURSIVE ToLowerCase(_)
ToLowerCase(s) ==
  IF s = "" THEN "" ELSE LowerChar(CharAt(s, 1)) \o ToLowerCase(SubSeq(s, 2, Len(s)))

\* needle occurs in s starting at position i
MatchAt(s, i, needle) ==
  /\ i >= 1
  /\ i + Len(needle) - 1 <= Len(s)
  /\ SubSeq(s, i, i + Len(needle) - 1) = needle

\* String.prototype.includes
Includes(s, needle) == \E i \in 1..(Len(s) + 1) : MatchAt(s, i, needle)

\* /needle/i.test(s)
TestI(s, needle) == Includes(ToLowerCase(s), needle)

\* /first.*second/i.test(s)
TestSeqI(s, first, second) ==
  LET l == ToLowerCase(s) IN
  \E i \in 1..(Len(l) + 1) :
    /\ MatchAt(l, i, first)
    /\ \E j \in (i + Len(first))..(Len(l) + 1) : MatchAt(l, j, second)

\* /first.second/i.test(s): exactly one character in between
TestGapI(s, first, second) ==
  LET l == ToLowerCase(s) IN
  \E i \in 1..(Len(l) + 1) :
    /\ MatchAt(l, i, first)
    /\ i + Len(first) <= Len(l)
    /\ MatchAt(l, i + Len(first) + 1, second)

WordChars ==
  {"a","b","c","d","e","f","g","h","i","j","k","l","m","n","o","p","q","r",
   "s","t","u","v","w","x","y","z","0","1","2","3","4","5","6","7","8","9","_"}

\* /needle\b/i.test(s): the needle ends in a word character, so \b holds
\* when the next character is missing or is not a word character
TestWordEndI(s, needle) ==
  LET l == ToLowerCase(s) IN
  \E i \in 1..(Len(l) + 1) :
    /\ MatchAt(l, i, needle)
    /\ \/ i + Len(needle) > Len(l)
       \/ CharAt(l, i + Len(needle)) \notin WordChars

Digits == {"0","1","2","3","4","5","6","7","8","9"}

(***************************************************************************)
(* Raw log: a JSON object, modelled as a function from property names.     *)
(* alert.raw_log is <<>> (null) or <<log>>.                                *)
(***************************************************************************)

EmptyLog == [k \in {} |-> ""]

\* alert.raw_log || {}
RawLogOf(alert) == IF alert.raw_log = <<>> THEN EmptyLog ELSE alert.raw_log[1]

\* log.key for a string property; a missing key reads as the empty (falsy) string
Prop(log, key) == IF key \in DOMAIN log THEN log[key] ELSE ""

\* a || b || c on string properties
FirstOf3(a, b, c) == IF a # "" THEN a ELSE IF b # "" THEN b ELSE c

\* rawLog.failed_attempts || 0
FailedAttempts(log) == IF "failed_attempts" \in DOMAIN log THEN log["failed_attempts"] ELSE 0

LogIp(log) == FirstOf3(Prop(log, "source_ip"), Prop(log, "ip"), Prop(log, "ip_address"))
LogUser(log) == FirstOf3(Prop(log, "affected_user"), Prop(log, "username"), Prop(log, "user"))
LogAsset(log) == FirstOf3(Prop(log, "affected_system"), Prop(log, "affected_asset"), Prop(log, "host"))

(***************************************************************************)
(* computeRiskMetrics                                                      *)
(***************************************************************************)

\* JS NaN as a number outside every score range; comparisons with it are false
NaN == -1

\* property names every object literal inherits from Object.prototype
ObjectPrototypeKeys ==
  {"constructor", "toString", "valueOf", "hasOwnProperty", "isPrototypeOf",
   "propertyIsEnumerable", "toLocaleString", "__proto__"}

\* the weight table with the Low entry missing
SeverityWeightLowUnlisted(severity) ==
  CASE severity = "Critical" -> 80
    [] severity = "High" -> 50
    [] severity = "Medium" -> 25
    [] severity \in ObjectPrototypeKeys -> NaN
    [] OTHER -> 25

\* severityWeights[alert.severity] || 25: an own key gives its weight, an
\* inherited key gives a function or object (truthy, so it is kept, and
\* Math.max(0, score) turns it into NaN), anything else gives 25
SeverityWeight(severity) ==
  CASE severity = "Critical" -> 80
    [] severity = "High" -> 50
    [] severity = "Medium" -> 25
    [] severity = "Low" -> 10
    [] severity \in ObjectPrototypeKeys -> NaN
    [] OTHER -> 25

\* score += n
AddScore(score, n) == IF score = NaN THEN NaN ELSE score + n

Min(a, b) == IF a <= b THEN a ELSE b
Max(a, b) == IF a >= b THEN a ELSE b

\* Math.min(100, Math.max(0, score))
ClampScore(score) == IF score = NaN THEN NaN ELSE Min(100, Max(0, score))

\* /admin|root|system|superuser|sa\b|service/i.test(user)
IsPrivilegedUser(user) ==
  \/ \E n \in {"admin", "root", "system", "superuser", "service"} : TestI(user, n)
  \/ TestWordEndI(user, "sa")

\* /^10\./ || /^172\.(1[6-9]|2\d|3[01])\./ || /^192\.168\./
IsInternalIp(ip) ==
  \/ MatchAt(ip, 1, "10.")
  \/ /\ MatchAt(ip, 1, "172.")
     /\ \/ MatchAt(ip, 5, "1") /\ CharAt(ip, 6) \in {"6", "7", "8", "9"}
        \/ MatchAt(ip, 5, "2") /\ CharAt(ip, 6) \in Digits
        \/ MatchAt(ip, 5, "3") /\ CharAt(ip, 6) \in {"0", "1"}
     /\ MatchAt(ip, 7, ".")
  \/ MatchAt(ip, 1, "192.168.")

\* /server|database|db|domain|prod|critical|firewall|gateway/i.test(asset)
IsSensitiveAsset(asset) ==
  \E n \in {"server", "database", "db", "domain", "prod", "critical", "firewall", "gateway"} :
    TestI(asset, n)

\* the asset-criticality regex ladder
AssetCriticality(asset) ==
  IF \/ TestI(asset, "database") \/ TestI(asset, "db")
     \/ TestSeqI(asset, "domain", "controller")
     \/ TestSeqI(asset, "prod", "server")
     \/ TestGapI(asset, "active", "directory")
  THEN "Critical"
  ELSE IF \/ TestSeqI(asset, "web", "server") \/ TestSeqI(asset, "app", "server")
          \/ \E n \in {"mail", "gateway", "firewall", "exchange"} : TestI(asset, n)
  THEN "High"
  ELSE IF \E n \in {"workstation", "laptop", "desktop", "endpoint"} : TestI(asset, n)
  THEN "Medium"
  ELSE IF \E n \in {"test", "dev", "staging", "sandbox", "lab"} : TestI(asset, n)
  THEN "Low"
  ELSE "Medium"

\* getAnalystGuidance: the guidance list, named by its category.  Calling
\* toLowerCase on an undefined alertType throws a TypeError.
GuidanceThrows(alertType) == alertType = Undefined

GetAnalystGuidance(alertType) ==
  LET type == ToLowerCase(alertType) IN
  IF \E n \in {"brute force", "credential stuffing", "login", "authentication"} : Includes(type, n)
  THEN "authentication"
  ELSE IF Includes(type, "phishing") THEN "phishing"
  ELSE IF Includes(type, "malware") \/ Includes(type, "beaconing") THEN "malware"
  ELSE IF \E n \in {"data exfiltration", "exfil", "insider"} : Includes(type, n) THEN "exfiltration"
  ELSE IF Includes(type, "privilege") \/ Includes(type, "escalation") THEN "privilege"
  ELSE IF \E n \in {"port scan", "reconnaissance", "scanning"} : Includes(type, n) THEN "reconnaissance"
  ELSE IF Includes(type, "unauthorized") \/ Includes(type, "access") THEN "access"
  ELSE "generic"

\* the result of a call that raised
Thrown == [threw |-> TRUE]

ComputeRiskMetrics(alert) ==
  LET rawLog == RawLogOf(alert)
      base == SeverityWeight(alert.severity)
      failedAttempts == FailedAttempts(rawLog)
      user == LogUser(rawLog)
      isPrivileged == IsPrivilegedUser(user)
      ip == LogIp(rawLog)
      isInternal == IsInternalIp(ip)
      asset == LogAsset(rawLog)
      isSensitiveAsset == IsSensitiveAsset(asset)
      s1 == IF failedAttempts > 5 THEN AddScore(base, 20) ELSE base
      s2 == IF isPrivileged THEN AddScore(s1, 40) ELSE s1
      s3 == IF ip # "" /\ ~isInternal THEN AddScore(s2, 15) ELSE s2
      s4 == IF isSensitiveAsset THEN AddScore(s3, 25) ELSE s3
      score == ClampScore(s4)
      c1 == IF DOMAIN rawLog # {} THEN 10 ELSE 0
      c2 == IF ip # "" THEN 10 ELSE 0
      c3 == IF user # "" THEN 10 ELSE 0
      c4 == IF alert.severity = "Critical" \/ alert.severity = "High" THEN 15 ELSE 5
      c5 == IF failedAttempts > 3 THEN 15 ELSE IF failedAttempts > 0 THEN 8 ELSE 0
      c6 == IF isPrivileged THEN 15 ELSE 0
      c7 == IF ip # "" /\ ~isInternal THEN 10 ELSE 0
      c8 == IF isSensitiveAsset THEN 15 ELSE 0
      confidence == Min(100, c1 + c2 + c3 + c4 + c5 + c6 + c7 + c8)
      fpLikelihood ==
        IF score # NaN /\ score >= 70 /\ (isPrivileged \/ failedAttempts > 5) THEN "Low"
        ELSE IF (score # NaN /\ score < 30) \/ (ip = "" /\ user = "") THEN "High"
        ELSE "Medium"
  IN IF GuidanceThrows(alert.alert_type) THEN Thrown
     ELSE [threw |-> FALSE,
           riskScore |-> score,
           assetCriticality |-> AssetCriticality(asset),
           confidenceScore |-> confidence,
           confidenceInterpretation |->
             IF confidence >= 80 THEN "High" ELSE IF confidence >= 50 THEN "Moderate" ELSE "Low",
           falsePositiveLikelihood |-> fpLikelihood,
           analystGuidance |-> GetAnalystGuidance(alert.alert_type),
           entityFlags |->
             (IF failedAttempts > 5 THEN {"Repeated Activity"} ELSE {})
             \cup (IF isPrivileged THEN {"Privileged Identity"} ELSE {})
             \cup (IF ip # "" /\ ~isInternal THEN {"External IP"} ELSE {})
             \cup (IF isSensitiveAsset THEN {"Sensitive Asset"} ELSE {})]

\* the thresholds taken as strict: above 80, above 50, above 25
AdjustedSeverityAbove(riskScore) ==
  IF riskScore # NaN /\ riskScore > 80 THEN "Critical"
  ELSE IF riskScore # NaN /\ riskScore > 50 THEN "High"
  ELSE IF riskScore # NaN /\ riskScore > 25 THEN "Medium"
  ELSE "Low"

\* metrics.riskScore >= 80 ? 'Critical' : >= 50 ? 'High' : >= 25 ? 'Medium' : 'Low'
AdjustedSeverity(riskScore) ==
  IF riskScore # NaN /\ riskScore >= 80 THEN "Critical"
  ELSE IF riskScore # NaN /\ riskScore >= 50 THEN "High"
  ELSE IF riskScore # NaN /\ riskScore >= 25 THEN "Medium"
  ELSE "Low"

(***************************************************************************)
(* analyze-alert: the provider loop and the analysis it assembles          *)
(***************************************************************************)

\* aiProviders: OpenAI first, then the Lovable gateway, each only when its key is set
AiProviders(keys) ==
  (IF "OPENAI_API_KEY" \in keys THEN <<"OpenAI">> ELSE <<>>)
  \o (IF "LOVABLE_API_KEY" \in keys THEN <<"Lovable AI">> ELSE <<>>)

\* what one provider call can do:
\*   transport_error  fetch rejects
\*   non_2xx          response.ok is false
\*   malformed        the body is not JSON or has no choices array
\*   empty            a 2xx completion whose content is empty or missing
\*   text             a 2xx completion with content
ProviderOutcomes == {"transport_error", "non_2xx", "malformed", "empty", "text"}

\* the outcomes on which the loop body reaches `continue`
ProviderSkipped(outcome) == outcome \in {"transport_error", "non_2xx", "malformed"}

\* for (const provider of aiProviders) { try { ... break } catch { continue } }
RECURSIVE ProviderLoop(_, _, _)
ProviderLoop(providers, outcome, k) ==
  IF k > Len(providers)
  THEN [aiSuccess |-> FALSE, provider |-> "none", content |-> ""]
  ELSE IF ProviderSkipped(outcome[providers[k]])
       THEN ProviderLoop(providers, outcome, k + 1)
       ELSE [aiSuccess |-> TRUE, provider |-> providers[k],
             content |-> IF outcome[providers[k]] = "empty" THEN "" ELSE "ai_text"]

\* an analysis object that would take the score from the provider's answer
BuildAnalysisTrustingAi(m, loop) ==
  [narrative |-> IF loop.aiSuccess THEN loop.content ELSE "fallback_text",
   provider |-> loop.provider,
   risk_score |-> IF loop.aiSuccess /\ loop.content = "ai_text" THEN 50 ELSE m.riskScore,
   adjusted_severity |-> AdjustedSeverity(m.riskScore),
   ai_used |-> loop.aiSuccess]

\* the analysis object: from the winning provider, else generateFallbackAnalysis
BuildAnalysis(m, loop) ==
  [narrative |-> IF loop.aiSuccess THEN loop.content ELSE "fallback_text",
   provider |-> loop.provider,
   risk_score |-> m.riskScore,
   adjusted_severity |-> AdjustedSeverity(m.riskScore),
   ai_used |-> loop.aiSuccess]

\* a risk_score column that holds NULL
NullScore == -2

\* JSON.stringify turns NaN into null on the way to the database
JsonNumber(n) == IF n = NaN THEN NullScore ELSE n

\* the columns written by .update({...}).eq('id', alert.id)
UpdatedRow(row, an) ==
  [row EXCEPT !.ai_analysis = an.narrative,
              !.risk_score = JsonNumber(an.risk_score),
              !.severity = an.adjusted_severity,
              !.ai_used = an.ai_used,
              !.status = "Reviewed"]

(***************************************************************************)
(* State                                                                   *)
(***************************************************************************)

VARIABLES
  request,       \* analyze-alert: the alert in the request body
  handlerPc,     \* analyze-alert: "received", "scored", "analysed", "stored", "failed"
  metrics,       \* analyze-alert: the result of computeRiskMetrics
  providerKeys,  \* analyze-alert: the provider API keys set in the environment
  outcomes,      \* analyze-alert: what each provider does when called in this request
  analysis,      \* analyze-alert: the analysis object
  storedRow,     \* the alerts row with the request's id
  alerts,        \* table public.alerts, in insertion order (the index is the id)
  incidents,     \* table public.incidents, in insertion order (the index is the id)
  aim,           \* table public.alert_incident_map: a bag of <<alert_id, incident_id>> rows
  clock,         \* now(), in minutes
  aruns,         \* the analyze-alert invocations in flight (a bag)
  bruns,         \* the process-alerts invocations in flight (a bag)
  batchStarted,  \* how many times the cron schedule has fired
  responses      \* the responses of the invocations that have returned

analyzeVars == <<request, handlerPc, metrics, providerKeys, outcomes, analysis, storedRow>>

storeVars == <<alerts, incidents, aim, clock, aruns, bruns, batchStarted, responses>>

VARIABLES
  summaryRow,     \* generate-incident-summary: the ai_summary column of the incident ("" is NULL)
  summaryReply,   \* generate-incident-summary: the last response
  summaryCalls,   \* generate-incident-summary: invocations so far
  summaryStored   \* generate-incident-summary: an invocation generated a summary and stored it

summaryVars == <<summaryRow, summaryReply, summaryCalls, summaryStored>>

\* no request to generate-incident-summary yet
NoReply == [status |-> 0]

SummaryIdle ==
  /\ summaryRow = ""
  /\ summaryReply = NoReply
  /\ summaryCalls = 0
  /\ summaryStored = FALSE

VARIABLES
  incidentRow,  \* incident dialog: the status and resolved_at of the incident (0 is NULL)
  activity,     \* incident dialog: the action_type of the incident_activity rows, in insertion order
  localStatus,  \* incident dialog: the status each analyst's open dialog shows
  mutation,     \* incident dialog: the last mutation, its outcome and the row it found
  mutations     \* incident dialog: mutations run so far

lifecycleVars == <<incidentRow, activity, localStatus, mutation, mutations>>

\* no mutation run yet
NoMutation == [op |-> "none"]

\* the analysts with the incident on screen
Analysts == {"ana", "ben"}

LifecycleIdle ==
  /\ incidentRow = [status |-> "Open", resolved_at |-> 0]
  /\ activity = <<>>
  /\ localStatus = [a \in Analysts |-> "Open"]
  /\ mutation = NoMutation
  /\ mutations = 0

VARIABLES
  leftAlerts,       \* schedule: alerts in status New or Reviewed that no analyze-alert call is going to evaluate
  batchRequests,    \* schedule: requests sent to process-alerts so far
  batchReply,       \* schedule: the last response of process-alerts, and who asked
  evaluatedAlerts   \* schedule: alerts that a batch run has evaluated

cronVars == <<leftAlerts, batchRequests, batchReply, evaluatedAlerts>>

CronIdle ==
  /\ leftAlerts = 0
  /\ batchRequests = 0
  /\ batchReply = NoReply
  /\ evaluatedAlerts = 0

VARIABLES
  modalOpen,     \* incident view: the dialog is open
  modalStatus,   \* incident view: localStatus of IncidentDetailModal
  hookSummary,   \* incident view: summary of useIncidentSummary ("" is null)
  isLoading,     \* incident view: isLoading of useIncidentSummary, a request is in flight
  hookError,     \* incident view: error of useIncidentSummary ("" is null)
  effectDue,     \* incident view: a dependency of the effect changed since it last ran
  viewRequests,  \* incident view: requests sent to generate-incident-summary so far
  viewEvents,    \* incident view: triggering events so far (open, status change, Retry)
  viewFailed     \* incident view: a generation failed since the last triggering event

viewVars == <<modalOpen, modalStatus, hookSummary, isLoading, hookError, effectDue, viewRequests, viewEvents, viewFailed>>

ViewIdle ==
  /\ modalOpen = FALSE
  /\ modalStatus = "Open"
  /\ hookSummary = ""
  /\ isLoading = FALSE
  /\ hookError = ""
  /\ effectDue = FALSE
  /\ viewRequests = 0
  /\ viewEvents = 0
  /\ viewFailed = FALSE

VARIABLES
  formedGroup,  \* narrative: the correlation group the summary is generated for
  summaryText,  \* narrative: the text generateFallbackSummary returned ("" before)
  parsed,       \* narrative: what parseSummary made of the text
  narrativePc   \* narrative: formed, generated or parsed

narrativeVars == <<formedGroup, summaryText, parsed, narrativePc>>

\* no group formed, nothing parsed
NoGroup == [triggerRule |-> "none"]
NoSections == [isRuleBased |-> FALSE]

NarrativeIdle ==
  /\ formedGroup = NoGroup
  /\ summaryText = ""
  /\ parsed = NoSections
  /\ narrativePc = "idle"

VARIABLES
  firstStored   \* re-analysis: the risk_score and severity the first analysis stored

reanalysisVars == <<firstStored>>

\* the alert was analysed at most once
NoFirst == [severity |-> "none"]

ReanalysisIdle ==
  /\ firstStored = NoFirst

sideVars == <<summaryVars, lifecycleVars, cronVars, viewVars, narrativeVars, reanalysisVars>>

vars == <<analyzeVars, storeVars, sideVars>>

\* the functions of the other specifications are not running
SideIdle == SummaryIdle /\ LifecycleIdle /\ CronIdle /\ ViewIdle /\ NarrativeIdle /\ ReanalysisIdle

\* what the steps of generate-incident-summary leave alone, and the rest at rest
restOfSummary == <<analyzeVars, storeVars, lifecycleVars, cronVars, viewVars, narrativeVars, reanalysisVars>>
SummaryAlone == LifecycleIdle /\ CronIdle /\ ViewIdle /\ NarrativeIdle /\ ReanalysisIdle

\* what the steps of the incident dialog leave alone, and the rest at rest
restOfLifecycle == <<analyzeVars, storeVars, summaryVars, cronVars, viewVars, narrativeVars, reanalysisVars>>
LifecycleAlone == SummaryIdle /\ CronIdle /\ ViewIdle /\ NarrativeIdle /\ ReanalysisIdle

\* what the steps of the schedule of process-alerts leave alone, and the rest at rest
restOfCron == <<analyzeVars, storeVars, summaryVars, lifecycleVars, viewVars, narrativeVars, reanalysisVars>>
CronAlone == SummaryIdle /\ LifecycleIdle /\ ViewIdle /\ NarrativeIdle /\ ReanalysisIdle

\* what the steps of the incident view leave alone, and the rest at rest
restOfView == <<analyzeVars, storeVars, summaryVars, lifecycleVars, cronVars, narrativeVars, reanalysisVars>>
ViewAlone == SummaryIdle /\ LifecycleIdle /\ CronIdle /\ NarrativeIdle /\ ReanalysisIdle

\* what the steps of the rule-based narrative and its parser leave alone, and the rest at rest
restOfNarrative == <<analyzeVars, storeVars, summaryVars, lifecycleVars, cronVars, viewVars, reanalysisVars>>
NarrativeAlone == SummaryIdle /\ LifecycleIdle /\ CronIdle /\ ViewIdle /\ ReanalysisIdle

\* what the steps of a second analysis of the stored alert leave alone, and the rest at rest
restOfReanalysis == <<analyzeVars, storeVars, summaryVars, lifecycleVars, cronVars, viewVars, narrativeVars>>
ReanalysisAlone == SummaryIdle /\ LifecycleIdle /\ CronIdle /\ ViewIdle /\ NarrativeIdle

(***************************************************************************)
(* Request bodies for analyze-alert.  verifyAuth lets every caller         *)
(* through, so the body is any JSON: the severity and alert_type need not  *)
(* be ones the alerts table would accept.                                  *)
(***************************************************************************)

RequestSeverities == {"Critical", "High", "Medium", "Low", "Info", "constructor", Undefined}

RequestAlertTypes == {"Brute Force Attempt", "Phishing Email Detected", Undefined}

IpValues == {"203.0.113.5", "10.1.2.3", "172.20.0.9", "172.32.0.9", "192.168.1.7"}
UserValues == {"admin", "jsmith", "lisa"}
AssetValues == {"prod-db-01", "laptop-7", "web-server"}
AttemptValues == {0, 4, 6, 10}

\* a raw log with the given entities; "" leaves the property out
MakeLog(ipKey, ip, user, asset, attempts) ==
  LET keys == (IF ip # "" THEN {ipKey} ELSE {})
              \cup (IF user # "" THEN {"affected_user"} ELSE {})
              \cup (IF asset # "" THEN {"affected_system"} ELSE {})
              \cup (IF attempts # 0 THEN {"failed_attempts"} ELSE {})
  IN [k \in keys |-> CASE k = ipKey -> ip
                       [] k = "affected_user" -> user
                       [] k = "affected_system" -> asset
                       [] k = "failed_attempts" -> attempts]

RequestLogs ==
  {<<>>}
  \cup {<<MakeLog("source_ip", ip, user, asset, n)>> :
          ip \in IpValues \cup {""}, user \in UserValues \cup {""},
          asset \in AssetValues \cup {""}, n \in AttemptValues}
  \cup {<<MakeLog("ip_address", ip, "", "", 0)>> : ip \in IpValues}
  \cup {<<[message |-> "heartbeat"]>>}

Requests ==
  [severity : RequestSeverities, alert_type : RequestAlertTypes, raw_log : RequestLogs]

NoMetrics == [threw |-> FALSE, riskScore |-> 0, pending |-> TRUE]
NoAnalysis == [pending |-> TRUE]
NoOutcomes == [p \in {} |-> "text"]

\* the row as inserted: status New, no score yet
InsertedRow ==
  [status |-> "New", severity |-> "Medium", risk_score |-> NullScore,
   ai_used |-> FALSE, ai_analysis |-> ""]

InitAnalyze ==
  /\ request \in Requests
  /\ handlerPc = "received"
  /\ metrics = NoMetrics
  /\ providerKeys = {}
  /\ outcomes = NoOutcomes
  /\ analysis = NoAnalysis
  /\ storedRow = InsertedRow
  /\ alerts = <<>> /\ incidents = <<>> /\ aim = EmptyBag /\ clock = 0
  /\ aruns = EmptyBag /\ bruns = EmptyBag /\ batchStarted = 0 /\ responses = {}
  /\ SideIdle

\* const metrics = computeRiskMetrics(alert); a throw is answered with a 500
ScoreRequest ==
  /\ handlerPc = "received"
  /\ metrics' = ComputeRiskMetrics(request)
  /\ handlerPc' = IF metrics'.threw THEN "failed" ELSE "scored"
  /\ UNCHANGED <<request, providerKeys, outcomes, analysis, storedRow>>
  /\ UNCHANGED <<storeVars, sideVars>>

\* the provider loop, then the fallback when no provider succeeded
RunProviders ==
  /\ handlerPc = "scored"
  /\ \E keys \in SUBSET {"OPENAI_API_KEY", "LOVABLE_API_KEY"} :
       \E o \in [{AiProviders(keys)[k] : k \in 1..Len(AiProviders(keys))} -> ProviderOutcomes] :
         /\ providerKeys' = keys
         /\ outcomes' = o
         /\ analysis' = BuildAnalysis(metrics, ProviderLoop(AiProviders(keys), o, 1))
  /\ handlerPc' = "analysed"
  /\ UNCHANGED <<request, metrics, storedRow>>
  /\ UNCHANGED <<storeVars, sideVars>>

\* supabase.from('alerts').update({...}).eq('id', alert.id)
UpdateAlert ==
  /\ handlerPc = "analysed"
  /\ storedRow' = UpdatedRow(storedRow, analysis)
  /\ handlerPc' = "stored"
  /\ UNCHANGED <<request, metrics, providerKeys, outcomes, analysis>>
  /\ UNCHANGED <<storeVars, sideVars>>

NextAnalyze == ScoreRequest \/ RunProviders \/ UpdateAlert

SpecAnalyze == InitAnalyze /\ [][NextAnalyze]_vars

(***************************************************************************)
(* The store and the correlation runs                                      *)
(***************************************************************************)

\* bounds of the model
MaxAlerts == 3
MaxClockTicks == 1
TickMinutes == 6
MaxBatchRuns == 2
MaxInFlight == 2

\* AFTER INSERT triggers on public.alerts that call auto_process_alert:
\* on_new_alert_process and on_alert_inserted
TriggersPerInsert == 2

\* the 5-minute window of the same-IP rules
WindowMinutes == 5

\* the alerts that are ingested: the columns an insert sets
Catalogue ==
  [brute |-> [alert_type |-> "Brute Force Attempt", severity |-> "High",
              raw_log |-> <<[source_ip |-> "203.0.113.5", affected_user |-> "admin",
                             failed_attempts |-> 10]>>],
   phish |-> [alert_type |-> "Phishing Email Detected", severity |-> "Medium",
              raw_log |-> <<>>],
   scan  |-> [alert_type |-> "Port Scanning Activity", severity |-> "Low",
              raw_log |-> <<[source_ip |-> "203.0.113.5",
                             affected_system |-> "web-server"]>>],
   probe |-> [alert_type |-> "Suspicious Connection", severity |-> "Low",
              raw_log |-> <<[source_ip |-> "198.51.100.9"]>>],
   login |-> [alert_type |-> "Failed Login", severity |-> "Medium",
              raw_log |-> <<[source_ip |-> "198.51.100.9", affected_user |-> "alice"]>>],
   lure  |-> [alert_type |-> "Phishing Email Detected", severity |-> "Medium",
              raw_log |-> <<[source_ip |-> "198.51.100.9"]>>],
   implant |-> [alert_type |-> "Malware Detected", severity |-> "Medium",
                raw_log |-> <<[affected_system |-> "web-server"]>>]]

\* the alerts that Ingest inserts; the stores drawn for the specifications of
\* a single run hold alerts of every kind
Kinds == {"brute", "phish", "scan"}

AlertIds == 1..Len(alerts)
IncidentIds == 1..Len(incidents)

\* row_to_json(NEW): the alert as an insert trigger posts it
Body(id) ==
  [id |-> id,
   alert_type |-> Catalogue[alerts[id].kind].alert_type,
   severity |-> Catalogue[alerts[id].kind].severity,
   raw_log |-> Catalogue[alerts[id].kind].raw_log,
   risk_score |-> NullScore]

\* the alert_type and raw_log columns of a stored alert; no code writes them
\* after the insert
StoredType(id) == Catalogue[alerts[id].kind].alert_type
StoredLog(id) == RawLogOf(Catalogue[alerts[id].kind])

\* the rows of alert_incident_map
MapRows == BagToSet(aim)

\* UNIQUE (alert_id, incident_id): may the row be inserted?
UniqueOk(map, row) == row \notin BagToSet(map)

\* .from('alert_incident_map').insert(row): the table afterwards; a row that
\* violates the constraint is not inserted and the call returns an error
InsertMappingUnchecked(map, row) == map (+) SetToBag({row})
InsertMapping(map, row) == IF UniqueOk(map, row) THEN map (+) SetToBag({row}) ELSE map

\* .from('alert_incident_map').insert(rows): one statement, all rows or none
InsertMappings(map, rows) ==
  IF \A row \in rows : UniqueOk(map, row) THEN map (+) SetToBag(rows) ELSE map

\* .from('alerts').update({ status: 'Correlated' }) for the given ids
SetCorrelated(rows, ids) ==
  [a \in DOMAIN rows |-> IF a \in ids THEN [rows[a] EXCEPT !.status = "Correlated"] ELSE rows[a]]

\* the rows of a select, here in ascending id order
RECURSIVE RowsInOrder(_)
RowsInOrder(ids) ==
  IF ids = {} THEN <<>>
  ELSE LET first == CHOOSE a \in ids : \A b \in ids : a <= b
       IN <<first>> \o RowsInOrder(ids \ {first})

\* .from('incidents').select('id').in('status', ['Open', 'In Progress'])
OpenIncidents ==
  RowsInOrder({i \in IncidentIds : incidents[i].status \in {"Open", "In Progress"}})

\* .from('alert_incident_map').select('alert_id').eq('incident_id', i)
MembersOf(i) == {row[1] : row \in {r \in MapRows : r[2] = i}}

\* the alerts with a row in alert_incident_map
Mapped == {row[1] : row \in MapRows}

\* the alerts mapped to an Open or In Progress incident
MappedToOpen ==
  {row[1] : row \in {r \in MapRows : incidents[r[2]].status \in {"Open", "In Progress"}}}

\* an incidents row.  Beside the columns it records, for the analysis below,
\* the function that created it, `fresh`: the member alerts that the creating
\* run read as un-mapped, and `stale`: whether every member was already
\* mapped to an open incident when the creating run began
NewIncident(severity, rule, priority, fn, fresh, stale) ==
  [severity |-> severity, status |-> "Open", rule |-> rule, priority |-> priority,
   fn |-> fn, fresh |-> fresh, stale |-> stale]

\* the response of an invocation; rejected and remapped tell whether a
\* mapping insert of the run was rejected by the uniqueness constraint and
\* whether one added a row for an alert that was mapped when the run began
Response(fn, r) ==
  [fn |-> fn, status |-> 200, rejected |-> r.rejected, remapped |-> r.remapped,
   quiet |-> r.quiet, created |-> r.created, inserted |-> r.inserted]

(***************************************************************************)
(* Ingestion and time                                                      *)
(***************************************************************************)

\* an analyze-alert invocation
NewAnalyzeRun(id) ==
  [alert |-> id, pc |-> "start", incs |-> <<>>, target |-> 0, todo |-> <<>>,
   rule |-> "none", seen |-> {}, rejected |-> FALSE, remapped |-> FALSE,
   quiet |-> FALSE, created |-> 0, inserted |-> 0]

\* invocations of the two functions in flight
InFlight == BagCardinality(aruns) + BagCardinality(bruns)

\* an alert row is inserted; each AFTER INSERT trigger posts it to analyze-alert
Ingest(kind) ==
  /\ Len(alerts) < MaxAlerts
  /\ InFlight + TriggersPerInsert <= MaxInFlight
  /\ alerts' = Append(alerts, [kind |-> kind, timestamp |-> clock, status |-> "New",
                               severity |-> Catalogue[kind].severity,
                               risk_score |-> NullScore])
  /\ aruns' = aruns (+) [r \in {NewAnalyzeRun(Len(alerts) + 1)} |-> TriggersPerInsert]
  /\ UNCHANGED <<incidents, aim, clock, bruns, batchStarted, responses>>
  /\ UNCHANGED <<analyzeVars, sideVars>>

\* time passes; an invocation lasts less than a tick
Tick ==
  /\ clock < MaxClockTicks * TickMinutes
  /\ aruns = EmptyBag /\ bruns = EmptyBag
  /\ clock' = clock + TickMinutes
  /\ UNCHANGED <<alerts, incidents, aim, aruns, bruns, batchStarted, responses>>
  /\ UNCHANGED <<analyzeVars, sideVars>>

(***************************************************************************)
(* analyze-alert: the alert update and runCorrelation, one step per        *)
(* database call                                                           *)
(***************************************************************************)

AnalyzeRuns == BagToSet(aruns)

\* the deterministic score of the posted alert
RunRisk(r) == ComputeRiskMetrics(Body(r.alert)).riskScore

\* alert.risk_score || 50, then the priority ladder of createIncident
PriorityOf(risk) ==
  LET r == IF risk = NullScore \/ risk = 0 THEN 50 ELSE risk
  IN IF r > 90 THEN "P1" ELSE IF r > 50 THEN "P2" ELSE "P3"

\* the first of the single-alert rules of runCorrelation that matches
SingleAlertRule(body, riskScore) ==
  LET alertType == ToLowerCase(body.alert_type) IN
  IF /\ Includes(alertType, "brute force") \/ Includes(alertType, "credential stuffing")
     /\ body.severity \in {"High", "Critical"}
  THEN "credential_attack"
  ELSE IF Includes(alertType, "phishing") THEN "phishing_detection"
  ELSE IF Includes(alertType, "malware") \/ Includes(alertType, "beaconing") THEN "malware_detection"
  ELSE IF Includes(alertType, "insider") \/ Includes(alertType, "exfiltration") THEN "insider_threat"
  ELSE IF riskScore # NaN /\ riskScore >= 75 THEN "risk_threshold"
  ELSE "none"

\* hasMatchingIp || hasMatchingUser against the alerts mapped to an incident
MatchesIncident(sourceIp, username, members) ==
  \/ sourceIp # "" /\ \E a \in members : LogIp(StoredLog(a)) = sourceIp
  \/ username # "" /\ \E a \in members : LogUser(StoredLog(a)) = username

\* the alerts of the last 5 minutes, other than the alert itself, with its IP
SameIpRecent(id, sourceIp) ==
  {a \in AlertIds : /\ a # id
                    /\ alerts[a].timestamp >= clock - WindowMinutes
                    /\ LogIp(StoredLog(a)) = sourceIp}

\* runCorrelation once tryAttachToExistingIncident has returned false: the
\* single-alert rules are evaluated without a database call; the next call is
\* createIncident's insert, the same-IP query, or none
AfterAttach(r) ==
  LET body == Body(r.alert)
      rule == SingleAlertRule(body, RunRisk(r))
  IN IF rule # "none"
     THEN [r EXCEPT !.pc = "create", !.rule = rule, !.todo = <<r.alert>>, !.incs = <<>>]
     ELSE IF LogIp(RawLogOf(body)) # ""
     THEN [r EXCEPT !.pc = "ipQuery", !.incs = <<>>]
     ELSE [r EXCEPT !.pc = "done", !.incs = <<>>]

\* the invocation moves on, or returns 200 when it has nothing left to do
AMove(r, r2) ==
  IF r2.pc = "done"
  THEN /\ aruns' = aruns (-) SetToBag({r})
       /\ responses' = responses \cup {Response("analyze-alert", r2)}
  ELSE /\ aruns' = (aruns (-) SetToBag({r})) (+) SetToBag({r2})
       /\ UNCHANGED responses

\* the alert update: risk_score, severity and status 'Reviewed' by id (the
\* narrative columns ai_analysis and ai_used of the same update are followed
\* in SpecAnalyze).  The run remembers, for the analysis below, which alerts
\* were mapped to an open incident (seen)
A_Update(r) ==
  /\ r.pc = "start"
  /\ alerts' = [alerts EXCEPT ![r.alert] =
                 [@ EXCEPT !.risk_score = JsonNumber(RunRisk(r)),
                           !.severity = AdjustedSeverity(RunRisk(r)),
                           !.status = "Reviewed"]]
  /\ AMove(r, [r EXCEPT !.pc = "checkMap", !.seen = MappedToOpen])
  /\ UNCHANGED <<incidents, aim, clock, bruns, batchStarted>>
  /\ UNCHANGED <<analyzeVars, sideVars>>

\* runCorrelation: the existingMap check, then the guard of tryAttachToExistingIncident
A_CheckMap(r) ==
  /\ r.pc = "checkMap"
  /\ AMove(r, IF r.alert \in Mapped THEN [r EXCEPT !.pc = "done"]
              ELSE IF /\ LogIp(RawLogOf(Body(r.alert))) = ""
                      /\ LogUser(RawLogOf(Body(r.alert))) = ""
              THEN AfterAttach(r)
              ELSE [r EXCEPT !.pc = "openIncidents"])
  /\ UNCHANGED <<alerts, incidents, aim, clock, bruns, batchStarted>>
  /\ UNCHANGED <<analyzeVars, sideVars>>

\* tryAttachToExistingIncident: the open incidents
A_FetchOpen(r) ==
  /\ r.pc = "openIncidents"
  /\ AMove(r, IF OpenIncidents = <<>> THEN AfterAttach(r)
              ELSE [r EXCEPT !.incs = OpenIncidents, !.pc = "scan"])
  /\ UNCHANGED <<alerts, incidents, aim, clock, bruns, batchStarted>>
  /\ UNCHANGED <<analyzeVars, sideVars>>

\* tryAttachToExistingIncident: the mappings of the next incident and the
\* raw_log of the mapped alerts (two selects; raw_log never changes, so the
\* second returns what it would have returned together with the first)
A_Scan(r) ==
  /\ r.pc = "scan"
  /\ LET inc == Head(r.incs)
         log == RawLogOf(Body(r.alert))
     IN AMove(r, IF MatchesIncident(LogIp(log), LogUser(log), MembersOf(inc))
                 THEN [r EXCEPT !.target = inc, !.incs = <<>>, !.pc = "attachInsert"]
                 ELSE IF Tail(r.incs) = <<>> THEN AfterAttach(r)
                 ELSE [r EXCEPT !.incs = Tail(r.incs)])
  /\ UNCHANGED <<alerts, incidents, aim, clock, bruns, batchStarted>>
  /\ UNCHANGED <<analyzeVars, sideVars>>

\* tryAttachToExistingIncident: the mapping insert; its error is not looked at
A_AttachInsert(r) ==
  /\ r.pc = "attachInsert"
  /\ aim' = InsertMapping(aim, <<r.alert, r.target>>)
  /\ AMove(r, [r EXCEPT !.pc = "attachUpdate",
                        !.rejected = @ \/ aim' = aim,
                        !.remapped = @ \/ (aim' # aim /\ r.alert \in r.seen),
                        !.inserted = IF aim' = aim THEN @ ELSE @ + 1])
  /\ UNCHANGED <<alerts, incidents, clock, bruns, batchStarted>>
  /\ UNCHANGED <<analyzeVars, sideVars>>

\* tryAttachToExistingIncident: status 'Correlated'
A_AttachUpdate(r) ==
  /\ r.pc = "attachUpdate"
  /\ alerts' = SetCorrelated(alerts, {r.alert})
  /\ AMove(r, [r EXCEPT !.pc = "done"])
  /\ UNCHANGED <<incidents, aim, clock, bruns, batchStarted>>
  /\ UNCHANGED <<analyzeVars, sideVars>>

\* runCorrelation: the same-IP rule reads the alerts of the last 5 minutes
A_IpQuery(r) ==
  /\ r.pc = "ipQuery"
  /\ LET same == SameIpRecent(r.alert, LogIp(RawLogOf(Body(r.alert))))
     IN AMove(r, IF Cardinality(same) >= 2
                 THEN [r EXCEPT !.todo = <<r.alert>> \o RowsInOrder(same),
                                !.rule = "ip_correlation", !.pc = "create"]
                 ELSE [r EXCEPT !.pc = "done"])
  /\ UNCHANGED <<alerts, incidents, aim, clock, bruns, batchStarted>>
  /\ UNCHANGED <<analyzeVars, sideVars>>

\* createIncident: the incident insert, with the severity of the posted alert
\* and the priority of its risk_score
A_CreateIncident(r) ==
  /\ r.pc = "create"
  /\ incidents' = Append(incidents,
        NewIncident(Body(r.alert).severity, r.rule, PriorityOf(Body(r.alert).risk_score),
                    "analyze-alert", {r.alert},
                    \A k \in DOMAIN r.todo : r.todo[k] \in r.seen))
  /\ AMove(r, [r EXCEPT !.target = Len(incidents) + 1, !.created = @ + 1,
                        !.pc = "mapInsert"])
  /\ UNCHANGED <<alerts, aim, clock, bruns, batchStarted>>
  /\ UNCHANGED <<analyzeVars, sideVars>>

\* createIncident: the mapping insert of the next member; its error is not looked at
A_MapInsert(r) ==
  /\ r.pc = "mapInsert"
  /\ aim' = InsertMapping(aim, <<Head(r.todo), r.target>>)
  /\ AMove(r, [r EXCEPT !.pc = "mapUpdate",
                        !.rejected = @ \/ aim' = aim,
                        !.remapped = @ \/ (aim' # aim /\ Head(r.todo) \in r.seen),
                        !.inserted = IF aim' = aim THEN @ ELSE @ + 1])
  /\ UNCHANGED <<alerts, incidents, clock, bruns, batchStarted>>
  /\ UNCHANGED <<analyzeVars, sideVars>>

\* createIncident: status 'Correlated' for that member
A_MapUpdate(r) ==
  /\ r.pc = "mapUpdate"
  /\ alerts' = SetCorrelated(alerts, {Head(r.todo)})
  /\ AMove(r, IF Tail(r.todo) = <<>> THEN [r EXCEPT !.pc = "done"]
              ELSE [r EXCEPT !.todo = Tail(r.todo), !.pc = "mapInsert"])
  /\ UNCHANGED <<incidents, aim, clock, bruns, batchStarted>>
  /\ UNCHANGED <<analyzeVars, sideVars>>

(***************************************************************************)
(* process-alerts: the grouping of a fetched pool                          *)
(***************************************************************************)

\* extractEntities
ExtractEntities(id) ==
  [ip |-> LogIp(StoredLog(id)), user |-> LogUser(StoredLog(id)),
   asset |-> LogAsset(StoredLog(id))]

\* the fetched rows: alerts in status New or Reviewed, ordered by timestamp
\* (ids follow insertion, so equal timestamps come in id order); a row keeps
\* the severity and risk_score it had when it was fetched
FetchPoolAnyStatus ==
  LET ids == RowsInOrder(AlertIds)
  IN [k \in DOMAIN ids |->
        [id |-> ids[k], severity |-> alerts[ids[k]].severity,
         risk_score |-> alerts[ids[k]].risk_score]]
FetchPool ==
  LET ids == RowsInOrder({a \in AlertIds : alerts[a].status \in {"New", "Reviewed"}})
  IN [k \in DOMAIN ids |->
        [id |-> ids[k], severity |-> alerts[ids[k]].severity,
         risk_score |-> alerts[ids[k]].risk_score]]

PoolIds(pool) == {pool[k].id : k \in DOMAIN pool}
PoolRow(pool, id) == pool[CHOOSE k \in DOMAIN pool : pool[k].id = id]

\* existingIncidentAlerts.set(inc.id, ips and users of its alerts), only for
\* an incident that has mappings
EntitySet(members) ==
  ({ExtractEntities(a).ip : a \in members} \cup {ExtractEntities(a).user : a \in members})
    \ {""}

\* phase 1 taking the last incident whose entity set has the alert's IP or user
RECURSIVE LastMatching(_, _)
LastMatching(ents, id) ==
  IF ents = <<>> THEN 0
  ELSE IF LastMatching(Tail(ents), id) # 0 THEN LastMatching(Tail(ents), id)
  ELSE IF \/ ExtractEntities(id).ip # "" /\ ExtractEntities(id).ip \in Head(ents).set
          \/ ExtractEntities(id).user # "" /\ ExtractEntities(id).user \in Head(ents).set
       THEN Head(ents).inc
       ELSE 0

\* phase 1: the first incident whose entity set has the alert's IP or user; 0 if none
RECURSIVE FirstMatching(_, _)
FirstMatching(ents, id) ==
  IF ents = <<>> THEN 0
  ELSE IF \/ ExtractEntities(id).ip # "" /\ ExtractEntities(id).ip \in Head(ents).set
          \/ ExtractEntities(id).user # "" /\ ExtractEntities(id).user \in Head(ents).set
       THEN Head(ents).inc
       ELSE FirstMatching(Tail(ents), id)

\* attachedToExisting, in pool order
AttachedToExisting(pool, ents) ==
  LET hits == SelectSeq(pool, LAMBDA row : FirstMatching(ents, row.id) # 0)
  IN [k \in DOMAIN hits |-> <<hits[k].id, FirstMatching(ents, hits[k].id)>>]

\* rule 1: brute force / credential stuffing with severity High or Critical
IsCredentialAlert(row) ==
  /\ \/ Includes(ToLowerCase(StoredType(row.id)), "brute force")
     \/ Includes(ToLowerCase(StoredType(row.id)), "credential stuffing")
  /\ row.severity \in {"High", "Critical"}

\* rule 3: /login|auth|access|credential|brute/i.test(alert.alert_type)
IsAuthAlert(id) ==
  \/ TestI(StoredType(id), "login") \/ TestI(StoredType(id), "auth")
  \/ TestI(StoredType(id), "access") \/ TestI(StoredType(id), "credential")
  \/ TestI(StoredType(id), "brute")

\* (a.risk_score || 0) >= 75
IsHighRisk(row) == row.risk_score # NullScore /\ row.risk_score >= 75

\* rule 2 without the window
WithinWindowAlways(ids) == TRUE

\* rule 2: diffMin <= 5 between the earliest and the latest alert of the IP
WithinWindow(ids) ==
  \A a, b \in ids : alerts[b].timestamp - alerts[a].timestamp <= WindowMinutes

\* the groups a Map keyed by an entity yields: one per key that has at least
\* `least` of the candidate alerts (for rule 2, within the window), in the
\* order the keys were first seen
GroupsByKey(key, candidates, least, windowed, rule) ==
  LET keys == {key[a] : a \in candidates} \ {""}
      of(k) == {a \in candidates : key[a] = k}
      first(k) == CHOOSE a \in of(k) : \A b \in of(k) : a <= b
      firsts == {first(k) : k \in {q \in keys : /\ Cardinality(of(q)) >= least
                                                /\ windowed => WithinWindow(of(q))}}
      order == RowsInOrder(firsts)
  IN [k \in DOMAIN order |-> [members |-> of(key[order[k]]), rule |-> rule]]

\* groups whose members are not taken out of what the later rules see
MembersOfGroupsNone(groups) == {}
MembersOfGroups(groups) == UNION {groups[k].members : k \in DOMAIN groups}

\* phase 2: rules 1 to 6 over the alerts that phase 1 left, each rule seeing
\* only what the rules before it did not claim
CorrelationGroups(pool, attached) ==
  LET remaining == PoolIds(pool) \ attached
      g1 == IF {a \in remaining : IsCredentialAlert(PoolRow(pool, a))} # {}
            THEN <<[members |-> {a \in remaining : IsCredentialAlert(PoolRow(pool, a))},
                    rule |-> "credential_attack"]>>
            ELSE <<>>
      r1 == remaining \ MembersOfGroups(g1)
      ipOf == [a \in AlertIds |-> ExtractEntities(a).ip]
      g2 == GroupsByKey(ipOf, r1, 3, TRUE, "ip_correlation")
      r2 == r1 \ MembersOfGroups(g2)
      userOf == [a \in AlertIds |-> ExtractEntities(a).user]
      g3 == GroupsByKey(userOf, {a \in r2 : IsAuthAlert(a)}, 2, FALSE, "user_correlation")
      r3 == r2 \ MembersOfGroups(g3)
      assetOf == [a \in AlertIds |-> ExtractEntities(a).asset]
      g4 == GroupsByKey(assetOf, r3, 2, FALSE, "asset_correlation")
      r4 == r3 \ MembersOfGroups(g4)
      phishing == {a \in r4 : Includes(ToLowerCase(StoredType(a)), "phishing")}
      g5 == IF phishing # {} THEN <<[members |-> phishing, rule |-> "phishing_detection"]>>
            ELSE <<>>
      r5 == r4 \ phishing
      highRisk == {a \in r5 : IsHighRisk(PoolRow(pool, a))}
      g6 == IF highRisk # {} THEN <<[members |-> highRisk, rule |-> "risk_threshold"]>>
            ELSE <<>>
  IN g1 \o g2 \o g3 \o g4 \o g5 \o g6

\* incidentSeverity of a group
IncidentSeverity(severities) ==
  IF "Critical" \in severities THEN "Critical"
  ELSE IF "High" \in severities THEN "High"
  ELSE IF "Low" \in severities /\ "Medium" \notin severities THEN "Low"
  ELSE "Medium"

RECURSIVE SumRisk(_, _)
SumRisk(pool, ids) ==
  IF ids = {} THEN 0
  ELSE LET a == CHOOSE x \in ids : TRUE
       IN PoolRow(pool, a).risk_score + SumRisk(pool, ids \ {a})

\* avgRisk: Math.round of the mean of the non-null risk scores, 50 if none;
\* then the priority ladder
GroupPriority(pool, members) ==
  LET scored == {a \in members : PoolRow(pool, a).risk_score # NullScore}
      n == Cardinality(scored)
      avgRisk == IF n > 0 THEN (2 * SumRisk(pool, scored) + n) \div (2 * n) ELSE 50
  IN IF avgRisk > 90 THEN "P1" ELSE IF avgRisk > 50 THEN "P2" ELSE "P3"

(***************************************************************************)
(* process-alerts: the batch run, one step per database call               *)
(***************************************************************************)

BatchRuns == BagToSet(bruns)

\* the run after its reads: phase 1 and the rules of phase 2 are computed
\* from the fetched rows without a database call
Planned(r) ==
  LET attach == AttachedToExisting(r.pool, r.ents)
      groups == CorrelationGroups(r.pool, {attach[k][1] : k \in DOMAIN attach})
  IN [r EXCEPT !.incs = <<>>, !.ents = <<>>, !.attach = attach, !.groups = groups,
               !.attached = Len(attach),
               !.processed = Cardinality({attach[k][1] : k \in DOMAIN attach}
                                         \cup MembersOfGroups(groups))]

\* the next write of the run: the attachments first, then the groups
Continue(r) ==
  [r EXCEPT !.pc = IF r.attach # <<>> THEN "attachInsert"
                   ELSE IF r.groups # <<>> THEN "groupInsert"
                   ELSE "done"]

\* the totals of the final response: what phase 1 and the rules claimed, and
\* the incidents inserted
Totals(r) ==
  [alerts_processed |-> r.processed, incidents_created |-> r.created,
   alerts_attached |-> r.attached]

\* the run moves on, or returns 200 when it has nothing left to do: at once
\* when no alert was fetched, else with the totals
BMove(running, r2) ==
  IF r2.pc = "done"
  THEN /\ bruns' = running
       /\ responses' = responses \cup
            {IF r2.pool = <<>> THEN Response("process-alerts", r2)
             ELSE Totals(r2) @@ Response("process-alerts", r2)}
  ELSE /\ bruns' = running (+) SetToBag({r2})
       /\ UNCHANGED responses

\* an authorized request arrives and the unprocessed alerts are fetched; with
\* none the run returns at once.  The run remembers, for the analysis below,
\* which fetched alerts were mapped to an open incident (seen) and whether
\* every alert was Correlated and mapped (quiet)
B_Fetch ==
  /\ batchStarted < MaxBatchRuns
  /\ bruns = EmptyBag /\ InFlight < MaxInFlight
  /\ batchStarted' = batchStarted + 1
  /\ BMove(bruns,
       [pc |-> IF FetchPool = <<>> THEN "done" ELSE "openIncidents",
        pool |-> FetchPool, incs |-> <<>>, ents |-> <<>>, attach |-> <<>>,
        groups |-> <<>>, target |-> 0,
        seen |-> MappedToOpen \cap PoolIds(FetchPool),
        quiet |-> alerts # <<>> /\ \A a \in AlertIds :
                    alerts[a].status = "Correlated" /\ a \in Mapped,
        rejected |-> FALSE, remapped |-> FALSE, created |-> 0, inserted |-> 0,
        attached |-> 0, processed |-> 0])
  /\ UNCHANGED <<alerts, incidents, aim, clock, aruns>>
  /\ UNCHANGED <<analyzeVars, sideVars>>

\* the open incidents
B_FetchOpen(r) ==
  /\ r.pc = "openIncidents"
  /\ BMove(bruns (-) SetToBag({r}),
           IF OpenIncidents = <<>> THEN Continue(Planned(r))
           ELSE [r EXCEPT !.incs = OpenIncidents, !.pc = "scan"])
  /\ UNCHANGED <<alerts, incidents, aim, clock, aruns, batchStarted>>
  /\ UNCHANGED <<analyzeVars, sideVars>>

\* the mappings of the next open incident and the raw_log of the mapped
\* alerts (two selects; raw_log never changes)
B_Scan(r) ==
  /\ r.pc = "scan"
  /\ LET inc == Head(r.incs)
         ents == IF MembersOf(inc) # {}
                 THEN Append(r.ents, [inc |-> inc, set |-> EntitySet(MembersOf(inc))])
                 ELSE r.ents
     IN BMove(bruns (-) SetToBag({r}),
              IF Tail(r.incs) = <<>> THEN Continue(Planned([r EXCEPT !.ents = ents]))
              ELSE [r EXCEPT !.incs = Tail(r.incs), !.ents = ents])
  /\ UNCHANGED <<alerts, incidents, aim, clock, aruns, batchStarted>>
  /\ UNCHANGED <<analyzeVars, sideVars>>

\* phase 1: the mapping insert of the next attachment; its error is not looked at
B_AttachInsert(r) ==
  /\ r.pc = "attachInsert"
  /\ aim' = InsertMapping(aim, Head(r.attach))
  /\ BMove(bruns (-) SetToBag({r}),
           [r EXCEPT !.pc = "attachUpdate",
                     !.rejected = @ \/ aim' = aim,
                     !.remapped = @ \/ (aim' # aim /\ Head(r.attach)[1] \in r.seen),
                     !.inserted = IF aim' = aim THEN @ ELSE @ + 1])
  /\ UNCHANGED <<alerts, incidents, clock, aruns, batchStarted>>
  /\ UNCHANGED <<analyzeVars, sideVars>>

\* phase 1: status 'Correlated' for the attached alert
B_AttachUpdate(r) ==
  /\ r.pc = "attachUpdate"
  /\ alerts' = SetCorrelated(alerts, {Head(r.attach)[1]})
  /\ BMove(bruns (-) SetToBag({r}), Continue([r EXCEPT !.attach = Tail(r.attach)]))
  /\ UNCHANGED <<incidents, aim, clock, aruns, batchStarted>>
  /\ UNCHANGED <<analyzeVars, sideVars>>

\* the incident insert of the next group
B_GroupInsert(r) ==
  /\ r.pc = "groupInsert"
  /\ LET members == Head(r.groups).members
     IN incidents' = Append(incidents,
          NewIncident(IncidentSeverity({PoolRow(r.pool, a).severity : a \in members}),
                      Head(r.groups).rule, GroupPriority(r.pool, members),
                      "process-alerts", members \ r.seen, members \subseteq r.seen))
  /\ BMove(bruns (-) SetToBag({r}),
           [r EXCEPT !.target = Len(incidents) + 1, !.created = @ + 1, !.pc = "groupMap"])
  /\ UNCHANGED <<alerts, aim, clock, aruns, batchStarted>>
  /\ UNCHANGED <<analyzeVars, sideVars>>

\* the mapping rows of the group, one insert
B_GroupMap(r) ==
  /\ r.pc = "groupMap"
  /\ LET rows == {<<a, r.target>> : a \in Head(r.groups).members}
     IN /\ aim' = InsertMappings(aim, rows)
        /\ BMove(bruns (-) SetToBag({r}),
                 [r EXCEPT !.pc = "groupUpdate",
                           !.rejected = @ \/ aim' = aim,
                           !.remapped = @ \/ (aim' # aim /\ Head(r.groups).members \cap r.seen # {}),
                           !.inserted = IF aim' = aim THEN @ ELSE @ + Cardinality(rows)])
  /\ UNCHANGED <<alerts, incidents, clock, aruns, batchStarted>>
  /\ UNCHANGED <<analyzeVars, sideVars>>

\* status 'Correlated' for the members of the group
B_GroupUpdate(r) ==
  /\ r.pc = "groupUpdate"
  /\ alerts' = SetCorrelated(alerts, Head(r.groups).members)
  /\ BMove(bruns (-) SetToBag({r}), Continue([r EXCEPT !.groups = Tail(r.groups)]))
  /\ UNCHANGED <<incidents, aim, clock, aruns, batchStarted>>
  /\ UNCHANGED <<analyzeVars, sideVars>>

(***************************************************************************)
(* The system: ingestion, the per-alert runs and the batch runs            *)
(***************************************************************************)

Init ==
  /\ alerts = <<>> /\ incidents = <<>> /\ aim = EmptyBag /\ clock = 0
  /\ aruns = EmptyBag /\ bruns = EmptyBag /\ batchStarted = 0 /\ responses = {}
  /\ request = [severity |-> "Low", alert_type |-> Undefined, raw_log |-> <<>>]
  /\ handlerPc = "idle"
  /\ metrics = NoMetrics
  /\ providerKeys = {}
  /\ outcomes = NoOutcomes
  /\ analysis = NoAnalysis
  /\ storedRow = InsertedRow
  /\ SideIdle

Next ==
  \/ \E kind \in Kinds : Ingest(kind)
  \/ Tick
  \/ \E r \in AnalyzeRuns : A_Update(r)
  \/ \E r \in AnalyzeRuns : A_CheckMap(r)
  \/ \E r \in AnalyzeRuns : A_FetchOpen(r)
  \/ \E r \in AnalyzeRuns : A_Scan(r)
  \/ \E r \in AnalyzeRuns : A_AttachInsert(r)
  \/ \E r \in AnalyzeRuns : A_AttachUpdate(r)
  \/ \E r \in AnalyzeRuns : A_IpQuery(r)
  \/ \E r \in AnalyzeRuns : A_CreateIncident(r)
  \/ \E r \in AnalyzeRuns : A_MapInsert(r)
  \/ \E r \in AnalyzeRuns : A_MapUpdate(r)
  \/ B_Fetch
  \/ \E r \in BatchRuns : B_FetchOpen(r)
  \/ \E r \in BatchRuns : B_Scan(r)
  \/ \E r \in BatchRuns : B_AttachInsert(r)
  \/ \E r \in BatchRuns : B_AttachUpdate(r)
  \/ \E r \in BatchRuns : B_GroupInsert(r)
  \/ \E r \in BatchRuns : B_GroupMap(r)
  \/ \E r \in BatchRuns : B_GroupUpdate(r)

Spec == Init /\ [][Next]_vars

(***************************************************************************)
(* Properties of the correlation runs (Spec)                               *)
(***************************************************************************)

\* invocations that are running, of either function
RunsInFlight == AnalyzeRuns \cup BatchRuns

\* C1: for every alert, at most one incident was created by runs that read
\* the alert as un-mapped (two such runs observed it before either committed
\* its mapping), and no (alert, incident) row occurs twice in alert_incident_map
C1_OneIncidentPerObservedAlert ==
  /\ \A a \in AlertIds : Cardinality({i \in IncidentIds : a \in incidents[i].fresh}) <= 1
  /\ \A row \in MapRows : CopiesIn(row, aim) = 1

\* C2: no run creates an incident whose members were all mapped to an open
\* incident when the run began, and no run adds a mapping row for an alert
\* that was mapped to an open incident when the run began
C2_MappedAlertsExcluded ==
  /\ \A i \in IncidentIds : ~incidents[i].stale
  /\ \A r \in RunsInFlight : ~r.remapped
  /\ \A resp \in responses : ~resp.remapped

\* C3: a process-alerts run that starts when every alert is Correlated and
\* mapped creates no incident and no alert_incident_map row
C3_QuietBatchCreatesNothing ==
  /\ \A r \in BatchRuns : r.quiet => r.created = 0 /\ r.inserted = 0
  /\ \A resp \in responses :
       resp.fn = "process-alerts" /\ resp.quiet => resp.created = 0 /\ resp.inserted = 0

\* a second batch run has returned, having started on a pool that the first
\* run had correlated entirely
C3_Witness ==
  /\ batchStarted = 2
  /\ \E resp \in responses : resp.fn = "process-alerts" /\ resp.quiet
  /\ \E resp \in responses : resp.fn = "process-alerts" /\ resp.created > 0
  /\ \A a \in AlertIds : alerts[a].status = "Correlated" /\ a \in Mapped
  /\ \A row \in MapRows : incidents[row[2]].fn = "process-alerts"

StatusRank(status) ==
  CASE status = "New" -> 0 [] status = "Reviewed" -> 1 [] status = "Correlated" -> 2

\* C4: no step moves the status of an alert backward in New -> Reviewed -> Correlated
C4_StatusOnlyAdvances ==
  [][\A a \in DOMAIN alerts :
       StatusRank(alerts'[a].status) >= StatusRank(alerts[a].status)]_vars

Scored == handlerPc \in {"scored", "analysed", "stored"}

\* the request carries no IP, no user and no asset in its raw log
NoEntities(alert) ==
  LET log == RawLogOf(alert) IN LogIp(log) = "" /\ LogUser(log) = "" /\ LogAsset(log) = ""

\* C6: for every alert, computeRiskMetrics returns riskScore in [0,100] and
\* confidenceScore in [0,100], and a stored risk_score is in [0,100].
C6_ScoresInRange ==
  /\ Scored => /\ metrics.riskScore \in 0..100
               /\ metrics.confidenceScore \in 0..100
  /\ handlerPc = "stored" /\ storedRow.risk_score # NullScore
       => storedRow.risk_score \in 0..100

\* the sample IPs that lie in 10.0.0.0/8, 172.16.0.0/12 or 192.168.0.0/16
PrivateSampleIps == {"10.1.2.3", "172.20.0.9", "192.168.1.7"}

\* the base score table as specified
ClaimedBase(severity) ==
  CASE severity = "Critical" -> 80 [] severity = "High" -> 50
    [] severity = "Medium" -> 25 [] severity = "Low" -> 10 [] OTHER -> 25

ClaimedRiskScore(alert) ==
  LET log == RawLogOf(alert)
      total == ClaimedBase(alert.severity)
               + (IF FailedAttempts(log) > 5 THEN 20 ELSE 0)
               + (IF IsPrivilegedUser(LogUser(log)) THEN 40 ELSE 0)
               + (IF LogIp(log) # "" /\ LogIp(log) \notin PrivateSampleIps THEN 15 ELSE 0)
               + (IF IsSensitiveAsset(LogAsset(log)) THEN 25 ELSE 0)
  IN IF total > 100 THEN 100 ELSE total

\* C7: riskScore = min(100, base + 20 + 40 + 15 + 25 as the signals apply), base
\* 25 for any severity outside the table; a private IP never adds the
\* "External IP" signal; Critical with all four signals gives 100, asset
\* criticality Critical and false-positive likelihood Low.
C7_ScoreFormula ==
  Scored =>
    /\ metrics.riskScore = ClaimedRiskScore(request)
    /\ LogIp(RawLogOf(request)) \in PrivateSampleIps => "External IP" \notin metrics.entityFlags
    /\ ( /\ request.severity = "Critical"
         /\ request.raw_log = <<MakeLog("source_ip", "203.0.113.5", "admin", "prod-db-01", 10)>> )
       => /\ metrics.riskScore = 100
          /\ metrics.assetCriticality = "Critical"
          /\ metrics.falsePositiveLikelihood = "Low"

\* C8 as stated: every Low alert without IP, user and asset scores 10 with
\* confidence <= 20 and false-positive likelihood High.
C8_LowNoEntities_Original ==
  Scored /\ request.severity = "Low" /\ NoEntities(request)
    => /\ metrics.riskScore = 10
       /\ metrics.confidenceScore <= 20
       /\ metrics.falsePositiveLikelihood = "High"

\* C8: every result computeRiskMetrics returns for a Low alert whose raw log
\* has no IP, no user, no asset and no failed attempts has riskScore 10,
\* confidenceScore <= 20 and false-positive likelihood High.
C8_LowNoSignals ==
  Scored /\ request.severity = "Low" /\ NoEntities(request)
         /\ FailedAttempts(RawLogOf(request)) = 0
    => /\ metrics.riskScore = 10
       /\ metrics.confidenceScore <= 20
       /\ metrics.falsePositiveLikelihood = "High"

C8_Witness ==
  /\ Scored /\ request.severity = "Low" /\ NoEntities(request)
  /\ request.raw_log = <<[message |-> "heartbeat"]>>
  /\ metrics.riskScore = 10 /\ metrics.confidenceScore = 15

\* C9: computeRiskMetrics is total: it returns metrics for every alert,
\* including one without raw_log, severity or alert_type.
C9_Total == handlerPc # "received" => ~metrics.threw

\* the providers, in order, that answered with a non-empty completion
Succeeding(keys, o) ==
  {k \in 1..Len(AiProviders(keys)) : o[AiProviders(keys)[k]] = "text"}

\* C10: providers are tried in order and the first success wins; a provider
\* failing in transport, answering non-2xx or returning an empty completion
\* is skipped; when none succeeds the fallback narrative is stored with
\* ai_used = false.
C10_FirstSuccessWins ==
  handlerPc = "stored" =>
    LET ok == Succeeding(providerKeys, outcomes) IN
    IF ok = {}
    THEN storedRow.ai_used = FALSE /\ storedRow.ai_analysis = "fallback_text"
    ELSE /\ storedRow.ai_used = TRUE
         /\ analysis.provider = AiProviders(providerKeys)[CHOOSE k \in ok : \A j \in ok : k <= j]
         /\ storedRow.ai_analysis = "ai_text"

\* C11: the risk_score and the severity that analyze-alert stores are those
\* computeRiskMetrics derives from the alert, whatever the providers are
\* configured and whatever each of them answers; so two runs on the same
\* alert that differ only in the providers' responses store the same values
C11_StoredScoreIgnoresProviders ==
  handlerPc = "stored" =>
    /\ storedRow.risk_score = JsonNumber(ComputeRiskMetrics(request).riskScore)
    /\ storedRow.severity = AdjustedSeverity(ComputeRiskMetrics(request).riskScore)

\* a row was stored whose narrative a provider wrote
C11_Witness ==
  /\ handlerPc = "stored"
  /\ storedRow.ai_used /\ storedRow.ai_analysis = "ai_text"
  /\ storedRow.risk_score = 100

(***************************************************************************)
(* generate-incident-summary (SpecSummary)                                 *)
(***************************************************************************)

\* bound of the model: invocations for the incident
MaxSummaryCalls == 3

\* the other functions are at rest: empty tables, no request to analyze-alert
CoreIdle ==
  /\ alerts = <<>> /\ incidents = <<>> /\ aim = EmptyBag /\ clock = 0
  /\ aruns = EmptyBag /\ bruns = EmptyBag /\ batchStarted = 0 /\ responses = {}
  /\ request = [severity |-> "Low", alert_type |-> Undefined, raw_log |-> <<>>]
  /\ handlerPc = "idle"
  /\ metrics = NoMetrics
  /\ providerKeys = {}
  /\ outcomes = NoOutcomes
  /\ analysis = NoAnalysis
  /\ storedRow = InsertedRow

\* the correlationEvidence block that generateAISummary appends (its first lines)
CorrelationEvidence == "\nCORRELATION EVIDENCE:\nINCIDENT ORIGIN: Auto-generated"

\* generateFallbackSummary: the section headers and the closing marker, with
\* the section bodies shortened
FallbackSummary ==
  "ATTACK PATTERN:\nr.\n\nOBSERVED BEHAVIOR:\n-\n\nBUSINESS IMPACT:\nm\n\n[Rule-based analysis"

\* what the provider can answer with a 200: a report with the sections asked
\* for, or a report that words or formats its headings differently
ProviderTexts ==
  {"ATTACK PATTERN:\na\n\nBUSINESS IMPACT:\nb",
   "**Attack Pattern**\na\n\n**Business Impact**\nb",
   "ATTACK PATTERN:\na\n\nIMPACT:\nb"}

\* what a call of the provider can come to
SummaryOutcomes == {"no_key", "transport_error", "non_2xx", "empty"} \cup ProviderTexts

\* generateAISummary
GenerateAISummary(outcome) ==
  IF outcome \in ProviderTexts
  THEN [summary |-> outcome \o "\n" \o CorrelationEvidence, ai_used |-> TRUE]
  ELSE [summary |-> FallbackSummary \o CorrelationEvidence, ai_used |-> FALSE]

\* a cache test that does not take a rule-based summary for a structured one
HasStructuredAiOnly(summary) ==
  /\ summary # ""
  /\ Includes(summary, "ATTACK PATTERN:")
  /\ Includes(summary, "BUSINESS IMPACT:")
  /\ Includes(summary, "CORRELATION EVIDENCE:")
  /\ ~Includes(summary, "[Rule-based analysis")

\* hasStructured
HasStructured(summary) ==
  /\ summary # ""
  /\ Includes(summary, "ATTACK PATTERN:")
  /\ Includes(summary, "BUSINESS IMPACT:")
  /\ Includes(summary, "CORRELATION EVIDENCE:")

\* the ai_summary an incident has before the first request: NULL (an incident
\* of analyze-alert's createIncident), or what process-alerts stored with its
\* own evidence block: its fallback text or a provider text
StoredSummaries ==
  {"", FallbackSummary \o "\n" \o CorrelationEvidence,
   "**Attack Pattern**\na\n\n**Business Impact**\nb" \o "\n" \o CorrelationEvidence}

InitSummary ==
  /\ CoreIdle /\ SummaryAlone
  /\ summaryRow \in StoredSummaries
  /\ summaryReply = NoReply
  /\ summaryCalls = 0
  /\ summaryStored = FALSE

\* a request that fails authorization: 401 or 403, nothing read or written
SummaryDenied ==
  /\ summaryCalls < MaxSummaryCalls
  /\ summaryCalls' = summaryCalls + 1
  /\ \E status \in {401, 403} : summaryReply' = [status |-> status]
  /\ UNCHANGED <<summaryRow, summaryStored, restOfSummary>>

\* an authorized request for the incident: the stored summary when it is
\* structured, else a generated one, written to the row (the result of the
\* update is not looked at: stored tells whether it took effect) and returned
SummaryRequest(outcome, stored) ==
  /\ summaryCalls < MaxSummaryCalls
  /\ summaryCalls' = summaryCalls + 1
  /\ IF HasStructured(summaryRow)
     THEN /\ summaryReply' =
               [status |-> 200, summary |-> summaryRow, cached |-> TRUE,
                ai_used |-> ~Includes(summaryRow, "[Rule-based analysis"),
                before |-> summaryRow, called |-> FALSE, wrote |-> FALSE,
                later |-> summaryStored]
          /\ UNCHANGED <<summaryRow, summaryStored>>
     ELSE /\ summaryRow' = IF stored THEN GenerateAISummary(outcome).summary ELSE summaryRow
          /\ summaryStored' = (summaryStored \/ stored)
          /\ summaryReply' =
               [status |-> 200, summary |-> GenerateAISummary(outcome).summary,
                cached |-> FALSE, ai_used |-> GenerateAISummary(outcome).ai_used,
                before |-> summaryRow, called |-> outcome # "no_key", wrote |-> stored,
                later |-> summaryStored]
  /\ UNCHANGED restOfSummary

NextSummary ==
  \/ SummaryDenied
  \/ \E outcome \in SummaryOutcomes, stored \in BOOLEAN : SummaryRequest(outcome, stored)

SpecSummary == InitSummary /\ [][NextSummary]_vars

MaxMutations == 4

\* what can go wrong in a mutation: nobody signed in, the update of the
\* incident refused, the insert of the activity row refused
MutationFailures == {"none", "no_user", "update", "insert"}

InitLifecycle == CoreIdle /\ LifecycleAlone /\ LifecycleIdle

\* IncidentDetailModal is mounted: its localStatus starts from the incident
\* row as fetched
OpenDialog(a) ==
  /\ localStatus[a] # incidentRow.status
  /\ localStatus' = [localStatus EXCEPT ![a] = incidentRow.status]
  /\ UNCHANGED <<incidentRow, activity, mutation, mutations, restOfLifecycle>>

\* the mutationFn of both hooks: the update of the incident by id, then the
\* insert of the activity row; the first error is thrown.  On success the
\* dialog sets its localStatus (handleStatusChange, handleResolved)
RunMutation(a, op, update, action_type, shown, failure) ==
  /\ mutations < MaxMutations
  /\ mutations' = mutations + 1
  /\ mutation' = [op |-> op, error |-> failure # "none", before |-> incidentRow, by |-> a]
  /\ incidentRow' = IF failure \in {"no_user", "update"} THEN incidentRow ELSE update
  /\ activity' = IF failure = "none" THEN Append(activity, action_type) ELSE activity
  /\ localStatus' = IF failure = "none" THEN [localStatus EXCEPT ![a] = shown] ELSE localStatus
  /\ UNCHANGED restOfLifecycle

\* useStartInvestigation, from the button shown while the dialog shows Open
StartInvestigation(a, failure) ==
  /\ localStatus[a] = "Open"
  /\ RunMutation(a, "start_investigation", [incidentRow EXCEPT !.status = "In Progress"],
                 "start_investigation", "In Progress", failure)

\* useResolveIncident, from the button enabled until the dialog shows
\* Resolved or Closed; resolved_at is the time of the mutation
ResolveIncident(a, failure) ==
  /\ localStatus[a] \notin {"Resolved", "Closed"}
  /\ RunMutation(a, "resolve", [status |-> "Resolved", resolved_at |-> mutations + 1],
                 "resolve", "Resolved", failure)

NextLifecycle ==
  \/ \E a \in Analysts : OpenDialog(a)
  \/ \E a \in Analysts, failure \in MutationFailures : StartInvestigation(a, failure)
  \/ \E a \in Analysts, failure \in MutationFailures : ResolveIncident(a, failure)

SpecLifecycle == InitLifecycle /\ [][NextLifecycle]_vars

\* the order Open -> In Progress -> Resolved -> Closed
IncidentRank(status) ==
  CASE status = "Open" -> 0 [] status = "In Progress" -> 1
    [] status = "Resolved" -> 2 [] status = "Closed" -> 3

\* the status a mutation asks for
Requested(op) == IF op = "resolve" THEN "Resolved" ELSE "In Progress"

\* C13: a start-investigation or resolve request that finds the incident at
\* a status later than the one it asks for is rejected as an error and leaves
\* status and resolved_at as they were
C13_ReverseRequestRejected ==
  mutation.op # "none" /\ IncidentRank(mutation.before.status) > IncidentRank(Requested(mutation.op)) =>
    mutation.error /\ incidentRow = mutation.before

\* C14: an incident that the resolve action moved to Resolved has a resolve
\* activity entry, and a resolve action that reports an error has left
\* status and resolved_at as they were
C14_ResolveIsOneUnit ==
  /\ incidentRow.status = "Resolved" => \E i \in DOMAIN activity : activity[i] = "resolve"
  /\ mutation.op = "resolve" /\ mutation.error => incidentRow = mutation.before


\* C15: a batch run whose insert was refused still answers 200, and its
\* totals count the mapping rows and incidents that were written:
\* alerts_processed is the number of mapping rows the run inserted
C15_TotalsCountSuccesses ==
  \A resp \in responses :
    resp.fn = "process-alerts" /\ "alerts_processed" \in DOMAIN resp =>
      /\ resp.status = 200
      /\ resp.alerts_processed = resp.inserted
(***************************************************************************)
(* Runs torn down by the host (SpecTornDown)                               *)
(***************************************************************************)

\* bound of the model: runs the host tears down
MaxTearDowns == 1

\* the torn-down runs: they have no response (status 0)
TornDown == {resp \in responses : resp.fn = "torn down"}

\* the host ends the isolate of a run that is between two of its database
\* calls: what the run has written stays, the rest of it never happens.  The
\* model takes a run between the insert of its incident and the insert of
\* the mapping rows (createIncident, and the incident loop of process-alerts),
\* at a moment when no other run is in flight
TearDown(r) ==
  /\ Cardinality(TornDown) < MaxTearDowns
  /\ r.pc \in {"mapInsert", "groupMap"}
  /\ InFlight = 1
  /\ IF r \in AnalyzeRuns
     THEN aruns' = aruns (-) SetToBag({r}) /\ UNCHANGED bruns
     ELSE bruns' = bruns (-) SetToBag({r}) /\ UNCHANGED aruns
  /\ responses' = responses \cup
       {[fn |-> "torn down", status |-> 0, rejected |-> FALSE, remapped |-> FALSE,
         quiet |-> FALSE, created |-> 0, inserted |-> 0]}
  /\ UNCHANGED <<alerts, incidents, aim, clock, batchStarted>>
  /\ UNCHANGED <<analyzeVars, sideVars>>

NextTornDown ==
  \/ Next
  \/ \E r \in RunsInFlight : TearDown(r)

SpecTornDown == Init /\ [][NextTornDown]_vars

\* C16: once the runs that followed a torn-down run have processed every
\* alert (no run in flight, every alert Correlated), the store is as complete
\* runs leave it: every incident has member alerts
C16_TornDownRunReprocessed ==
  /\ RunsInFlight = {}
  /\ alerts # <<>> /\ \A a \in AlertIds : alerts[a].status = "Correlated"
  => \A i \in IncidentIds : MembersOf(i) # {}

(***************************************************************************)
(* The schedule of process-alerts and its authorization (SpecCron)         *)
(***************************************************************************)

\* bounds of the model: alerts left unprocessed, requests to process-alerts
MaxLeftAlerts == 3
MaxBatchRequests == 3

\* the bearer token written into the schedule: the project's anon key, a JWT
\* with role anon and no subject (shortened)
CronToken == "eyJ.anon"

\* SUPABASE_SERVICE_ROLE_KEY of the function's environment (shortened)
ServiceRoleKey == "eyJ.service_role"

\* the Authorization headers a request can carry: none, the schedule's, the
\* service role's, the session of an admin, the session of an analyst
AuthHeaders ==
  {Undefined, "Bearer " \o CronToken, "Bearer " \o ServiceRoleKey,
   "Bearer eyJ.admin", "Bearer eyJ.analyst"}

\* verifyAuth: the header with 'Bearer ' removed is the service role key, or
\* it is the session of a user (auth.getUser) whose user_roles row says admin
VerifyAuth(authHeader) ==
  LET token == IF MatchAt(authHeader, 1, "Bearer ")
               THEN SubSeq(authHeader, 8, Len(authHeader)) ELSE authHeader
      user == CASE token = "eyJ.admin" -> "admin-user"
                [] token = "eyJ.analyst" -> "analyst-user"
                [] OTHER -> Undefined
      role == IF user = "admin-user" THEN "admin" ELSE "analyst"
  IN IF authHeader = Undefined
     THEN [authorized |-> FALSE, error |-> "Missing authorization header"]
     ELSE IF token = ServiceRoleKey THEN [authorized |-> TRUE, error |-> ""]
     ELSE IF user = Undefined
     THEN [authorized |-> FALSE, error |-> "Invalid or expired token"]
     ELSE IF role # "admin"
     THEN [authorized |-> FALSE, error |-> "Admin access required"]
     ELSE [authorized |-> TRUE, error |-> ""]

InitCron == CoreIdle /\ CronAlone /\ CronIdle

\* an alert is inserted and its analyze-alert call fails (the trigger's
\* http_post is best effort): the alert stays New
AlertLeft ==
  /\ leftAlerts + evaluatedAlerts < MaxLeftAlerts
  /\ leftAlerts' = leftAlerts + 1
  /\ UNCHANGED <<batchRequests, batchReply, evaluatedAlerts, restOfCron>>

\* the handler of process-alerts for a request with this header: 401 when
\* verifyAuth refuses it, else the correlation batch over the alerts in
\* status New or Reviewed
ProcessAlertsRequest(caller, authHeader) ==
  /\ batchRequests < MaxBatchRequests
  /\ batchRequests' = batchRequests + 1
  /\ IF VerifyAuth(authHeader).authorized
     THEN /\ batchReply' = [status |-> 200, by |-> caller, error |-> "", found |-> leftAlerts]
          /\ evaluatedAlerts' = evaluatedAlerts + leftAlerts
          /\ leftAlerts' = 0
     ELSE /\ batchReply' = [status |-> 401, by |-> caller,
                            error |-> VerifyAuth(authHeader).error, found |-> leftAlerts]
          /\ UNCHANGED <<leftAlerts, evaluatedAlerts>>
  /\ UNCHANGED restOfCron

\* cron.schedule 'process-alerts-every-5-min': the http_post with the token
\* of the schedule
CronFire == ProcessAlertsRequest("cron", "Bearer " \o CronToken)

\* any other client of the function
OtherRequest == \E authHeader \in AuthHeaders : ProcessAlertsRequest("client", authHeader)

NextCron ==
  \/ AlertLeft
  \/ CronFire
  \/ OtherRequest

SpecCron == InitCron /\ [][NextCron]_vars

\* C17: the request of the schedule passes the authorization of
\* process-alerts and runs the batch, which evaluates the alerts left in
\* status New or Reviewed
C17_CronRequestAuthorized ==
  batchReply # NoReply /\ batchReply.by = "cron" =>
    batchReply.status = 200 /\ leftAlerts = 0

(***************************************************************************)
(* One run over a store of alerts: process-alerts (SpecPool) and           *)
(* analyze-alert for the alert inserted last (SpecArrival)                 *)
(***************************************************************************)

\* bound of the model: alerts in status New or Reviewed in the store
MaxPoolAlerts == 3

\* the timestamps of the alerts, in minutes
PoolTimes == {0, 5, 6}

\* an alert of the catalogue as a stored row: New as inserted, or Reviewed
\* or Correlated with the severity and risk score that analyze-alert writes
AlertRow(kind, status, timestamp) ==
  LET risk == ComputeRiskMetrics([alert_type |-> Catalogue[kind].alert_type,
                                  severity |-> Catalogue[kind].severity,
                                  raw_log |-> Catalogue[kind].raw_log]).riskScore
  IN [kind |-> kind, timestamp |-> timestamp, status |-> status,
      severity |-> IF status = "New" THEN Catalogue[kind].severity ELSE AdjustedSeverity(risk),
      risk_score |-> IF status = "New" THEN NullScore ELSE JsonNumber(risk)]

\* analyze-alert is not running on a request of its own
HandlerIdle ==
  /\ request = [severity |-> "Low", alert_type |-> Undefined, raw_log |-> <<>>]
  /\ handlerPc = "idle"
  /\ metrics = NoMetrics
  /\ providerKeys = {}
  /\ outcomes = NoOutcomes
  /\ analysis = NoAnalysis
  /\ storedRow = InsertedRow

\* a store between runs: no incident, or one Open incident with one member
\* alert (Correlated, mapped), and up to MaxPoolAlerts alerts in status New
\* or Reviewed whose timestamps follow their insertion order, counted from
\* the first of them
DrawnStore ==
  /\ \E member \in {"none", "login"}, n \in 1..MaxPoolAlerts :
       \E kinds \in [1..n -> DOMAIN Catalogue], states \in [1..n -> {"New", "Reviewed"}],
          times \in [1..n -> PoolTimes] :
         /\ times[1] = 0
         /\ \A j, k \in 1..n : j <= k => times[j] <= times[k]
         /\ alerts = (IF member = "none" THEN <<>> ELSE <<AlertRow(member, "Correlated", 0)>>)
                     \o [k \in 1..n |-> AlertRow(kinds[k], states[k], times[k])]
         /\ incidents = IF member = "none" THEN <<>>
                        ELSE <<NewIncident(AlertRow(member, "Correlated", 0).severity,
                                           "risk_threshold", "P3", "an earlier run", {1}, FALSE)>>
         /\ aim = IF member = "none" THEN EmptyBag ELSE SetToBag({<<1, 1>>})
  /\ clock = alerts[Len(alerts)].timestamp
  /\ batchStarted = 0 /\ responses = {}
  /\ HandlerIdle /\ SideIdle

\* the schedule is about to run process-alerts
InitPool == DrawnStore /\ aruns = EmptyBag /\ bruns = EmptyBag

NextPool ==
  \/ B_Fetch
  \/ \E r \in BatchRuns : B_FetchOpen(r)
  \/ \E r \in BatchRuns : B_Scan(r)
  \/ \E r \in BatchRuns : B_AttachInsert(r)
  \/ \E r \in BatchRuns : B_AttachUpdate(r)
  \/ \E r \in BatchRuns : B_GroupInsert(r)
  \/ \E r \in BatchRuns : B_GroupMap(r)
  \/ \E r \in BatchRuns : B_GroupUpdate(r)

SpecPool == InitPool /\ [][NextPool]_vars

\* the alerts a run has yet to attach
Attaching(r) == {r.attach[k][1] : k \in DOMAIN r.attach}

\* C18: in a process-alerts run no alert is attached twice, no attached alert
\* is a member of a group, and no alert is a member of two groups
C18_ClaimedAtMostOnce ==
  \A r \in BatchRuns :
    /\ Cardinality(Attaching(r)) = Len(r.attach)
    /\ \A k \in DOMAIN r.groups : r.groups[k].members \cap Attaching(r) = {}
    /\ \A j, k \in DOMAIN r.groups : j # k => r.groups[j].members \cap r.groups[k].members = {}

\* a run has planned an attachment and two groups
C18_Witness ==
  \E r \in BatchRuns : r.attach # <<>> /\ Len(r.groups) >= 2


\* the alert inserted last is New and one of its analyze-alert invocations is
\* about to run
InitArrival ==
  /\ DrawnStore
  /\ alerts[Len(alerts)].status = "New"
  /\ aruns = SetToBag({NewAnalyzeRun(Len(alerts))}) /\ bruns = EmptyBag

NextArrival ==
  \/ \E r \in AnalyzeRuns : A_Update(r)
  \/ \E r \in AnalyzeRuns : A_CheckMap(r)
  \/ \E r \in AnalyzeRuns : A_FetchOpen(r)
  \/ \E r \in AnalyzeRuns : A_Scan(r)
  \/ \E r \in AnalyzeRuns : A_AttachInsert(r)
  \/ \E r \in AnalyzeRuns : A_AttachUpdate(r)
  \/ \E r \in AnalyzeRuns : A_IpQuery(r)
  \/ \E r \in AnalyzeRuns : A_CreateIncident(r)
  \/ \E r \in AnalyzeRuns : A_MapInsert(r)
  \/ \E r \in AnalyzeRuns : A_MapUpdate(r)

SpecArrival == InitArrival /\ [][NextArrival]_vars

\* the alert inserted last is one of at least 3 alerts of the last 5 minutes
\* that share its source IP
InSameIpBurst ==
  /\ LogIp(StoredLog(Len(alerts))) # ""
  /\ Cardinality(SameIpRecent(Len(alerts), LogIp(StoredLog(Len(alerts))))) >= 2

\* C19: in the per-alert path the incident of an alert is produced by the
\* first qualifying rule in the order credential attack, same-IP burst, ...,
\* phishing, risk threshold: an alert in a same-IP burst gets an incident of
\* the credential-attack rule or of the same-IP rule
C19_FixedRuleOrder ==
  \A i \in IncidentIds :
    incidents[i].fn = "analyze-alert" /\ InSameIpBurst =>
      incidents[i].rule \in {"credential_attack", "ip_correlation"}


\* the alerts that the first run found mapped or attached in phase 1 (the
\* members of the incident that was there before it), and those that its
\* rule 1 claimed
TakenBeforeRule2 ==
  {a \in AlertIds : \E i \in IncidentIds :
     /\ a \in MembersOf(i)
     /\ incidents[i].fn = "an earlier run" \/ incidents[i].rule = "credential_attack"}

\* the alerts of a source IP that rule 2 sees
SeenByRule2(ip) == {a \in AlertIds \ TakenBeforeRule2 : ExtractEntities(a).ip = ip}

\* the incidents of rule 2 for a source IP
IpIncidents(ip) ==
  {i \in IncidentIds : /\ incidents[i].rule = "ip_correlation"
                       /\ \E a \in MembersOf(i) : ExtractEntities(a).ip = ip}

\* at least 3 alerts, at most 5 minutes from the earliest to the latest
IsBurst(ids) ==
  /\ Cardinality(ids) >= 3
  /\ \A a, b \in ids : alerts[b].timestamp - alerts[a].timestamp <= 5

\* none of rules 3 to 6 matches the alert among the alerts left to them
NoLaterRule(a) ==
  LET left == AlertIds \ TakenBeforeRule2 IN
  /\ ~(/\ IsAuthAlert(a) /\ ExtractEntities(a).user # ""
       /\ \E b \in left \ {a} : IsAuthAlert(b) /\ ExtractEntities(b).user = ExtractEntities(a).user)
  /\ ~(/\ ExtractEntities(a).asset # ""
       /\ \E b \in left \ {a} : ExtractEntities(b).asset = ExtractEntities(a).asset)
  /\ ~Includes(ToLowerCase(StoredType(a)), "phishing")
  /\ ~IsHighRisk(alerts[a])

\* C20: when a process-alerts run has returned, for every source IP there is
\* an ip_correlation incident iff at least 3 of the alerts that were neither
\* attached in phase 1 nor claimed by rule 1 share the IP within 5 minutes;
\* then it is one incident whose members are all of them; and 3 or more
\* such alerts spread over more than 5 minutes that no later rule matches
\* are in no incident
C20_SameIpBurst ==
  batchStarted = 1 /\ bruns = EmptyBag =>
    \A ip \in {ExtractEntities(a).ip : a \in AlertIds} \ {""} :
      /\ IpIncidents(ip) # {} <=> IsBurst(SeenByRule2(ip))
      /\ IpIncidents(ip) # {} =>
           /\ Cardinality(IpIncidents(ip)) = 1
           /\ \A i \in IpIncidents(ip) : MembersOf(i) = SeenByRule2(ip)
      /\ /\ Cardinality(SeenByRule2(ip)) >= 3 /\ ~IsBurst(SeenByRule2(ip))
         /\ \A a \in SeenByRule2(ip) : NoLaterRule(a)
         => SeenByRule2(ip) \cap Mapped = {}

\* a run has returned that made an ip_correlation incident of three alerts
\* whose timestamps are exactly 5 minutes apart
C20_Witness ==
  /\ batchStarted = 1 /\ bruns = EmptyBag
  /\ \E i \in IncidentIds :
       /\ incidents[i].rule = "ip_correlation" /\ Cardinality(MembersOf(i)) = 3
       /\ \E a, b \in MembersOf(i) : alerts[b].timestamp - alerts[a].timestamp = 5


\* the order Low < Medium < High < Critical
SeverityRank(severity) ==
  CASE severity = "Low" -> 0 [] severity = "Medium" -> 1
    [] severity = "High" -> 2 [] severity = "Critical" -> 3

\* the severity of the incident is the highest severity among its members
HasMaxSeverity(i) ==
  /\ \E a \in MembersOf(i) : alerts[a].severity = incidents[i].severity
  /\ \A a \in MembersOf(i) : SeverityRank(alerts[a].severity) <= SeverityRank(incidents[i].severity)

\* C21: when the analyze-alert run that created an incident has returned, the
\* severity of the incident is the maximum severity among the alerts it
\* mapped to it
C21_CreatedWithMaxSeverity ==
  aruns = EmptyBag =>
    \A i \in IncidentIds :
      incidents[i].fn = "analyze-alert" /\ MembersOf(i) # {} => HasMaxSeverity(i)


\* C22: in every state the severity of an incident is the maximum severity
\* among the alerts mapped to it; stated for the incidents of process-alerts,
\* which are created with the maximum severity of their members
C22_SeverityIsMaxOfMembers ==
  \A i \in IncidentIds :
    incidents[i].fn = "process-alerts" /\ MembersOf(i) # {} => HasMaxSeverity(i)


\* the sum of the scores that the scorer computes for the alerts ids
RECURSIVE SumComputed(_)
SumComputed(ids) ==
  IF ids = {} THEN 0
  ELSE LET a == CHOOSE x \in ids : TRUE
       IN ComputeRiskMetrics(Body(a)).riskScore + SumComputed(ids \ {a})

\* P1 above 90, P2 above 50, else P3, of the rounded mean of the computed
\* scores of the members of incident i
LadderOfMembers(i) ==
  LET n == Cardinality(MembersOf(i))
      avgRisk == (2 * SumComputed(MembersOf(i)) + n) \div (2 * n)
  IN IF avgRisk > 90 THEN "P1" ELSE IF avgRisk > 50 THEN "P2" ELSE "P3"

\* C23: when the analyze-alert run that created an incident has returned, the
\* priority tag in the reason of the incident is P1, P2 or P3 by the average
\* of the scores the scorer computed for its member alerts
C23_PriorityFromComputedScores ==
  aruns = EmptyBag =>
    \A i \in IncidentIds :
      incidents[i].fn = "analyze-alert" /\ MembersOf(i) # {} =>
        incidents[i].priority = LadderOfMembers(i)


\* the raw log of the alert has neither an IP nor a user identifier
HasNoIpNorUser(a) == ExtractEntities(a).ip = "" /\ ExtractEntities(a).user = ""

\* C24: an alert whose raw log has neither an IP nor a user identifier is a
\* member of no incident other than one that rule 5 (phishing) or rule 6 (risk
\* threshold) formed
C24_EntitylessOnlyByRules5And6 ==
  \A a \in AlertIds : \A i \in IncidentIds :
    HasNoIpNorUser(a) /\ a \in MembersOf(i) /\ incidents[i].fn = "process-alerts" =>
      incidents[i].rule \in {"phishing_detection", "risk_threshold"}


\* alert a shares its IP or its user with one of the alerts members
SharesIpOrUser(a, members) ==
  \E m \in members :
    \/ ExtractEntities(a).ip # "" /\ ExtractEntities(a).ip = ExtractEntities(m).ip
    \/ ExtractEntities(a).user # "" /\ ExtractEntities(a).user = ExtractEntities(m).user

\* the step adds at most the row <<a, i>> to alert_incident_map and changes
\* no alert and no incident
OnlyMaps(a, i) ==
  /\ aim' \in {aim, aim (+) SetToBag({<<a, i>>})}
  /\ alerts' = alerts /\ incidents' = incidents

\* the step changes the status of alert a and nothing else in the tables
OnlyStatusOf(a) ==
  /\ alerts' = [alerts EXCEPT ![a].status = "Correlated"]
  /\ aim' = aim /\ incidents' = incidents

\* the incidents a batch run has read with their members, the one it reads in
\* this step included, in the order it read them
ReadIncidents(r) ==
  LET read == [k \in DOMAIN r.ents |-> [inc |-> r.ents[k].inc, members |-> {}, set |-> r.ents[k].set]]
  IN IF MembersOf(Head(r.incs)) = {} THEN read
     ELSE Append(read, [inc |-> Head(r.incs), members |-> MembersOf(Head(r.incs)),
                        set |-> EntitySet(MembersOf(Head(r.incs)))])

\* alert a has its IP or its user in the entity set
InEntitySet(a, set) ==
  \/ ExtractEntities(a).ip # "" /\ ExtractEntities(a).ip \in set
  \/ ExtractEntities(a).user # "" /\ ExtractEntities(a).user \in set

MaxViewRequests == 3
MaxViewEvents == 3

\* hasStructuredFormat of IncidentDetailModal
HasStructuredFormat(text) ==
  text # "" /\ Includes(text, "ATTACK PATTERN:") /\ Includes(text, "BUSINESS IMPACT:")

\* what a request comes to: a response that is not ok or a failed fetch, or
\* a 200 with the summary the function generated
ViewReplies ==
  {[ok |-> FALSE, summary |-> ""]} \cup
  {[ok |-> TRUE, summary |-> GenerateAISummary(outcome).summary] : outcome \in SummaryOutcomes}

\* the incident is on the list with the ai_summary its creator stored and an
\* analyst has not opened it yet
InitView ==
  /\ CoreIdle /\ ViewAlone
  /\ modalOpen = FALSE
  /\ modalStatus \in {"Open", "In Progress"}
  /\ hookSummary \in StoredSummaries
  /\ isLoading = FALSE /\ hookError = "" /\ effectDue = FALSE
  /\ viewRequests = 0 /\ viewEvents = 0 /\ viewFailed = FALSE

\* showAISummary, for an analyst
IsInvestigating == modalStatus \in {"In Progress", "Resolved", "Closed"}

\* generateSummary up to its fetch: nothing while a request is in flight
GenerateSummary ==
  IF isLoading THEN UNCHANGED <<isLoading, hookError, viewRequests>>
  ELSE /\ isLoading' = TRUE
       /\ hookError' = ""
       /\ viewRequests' = viewRequests + 1

\* a triggering event: it starts a new count
Triggered ==
  /\ viewEvents < MaxViewEvents
  /\ viewEvents' = viewEvents + 1
  /\ viewFailed' = FALSE

\* the analyst opens the incident
OpenModal ==
  /\ ~modalOpen /\ Triggered
  /\ modalOpen' = TRUE
  /\ effectDue' = TRUE
  /\ UNCHANGED <<modalStatus, hookSummary, isLoading, hookError, viewRequests, restOfView>>

\* the analyst closes the dialog
CloseModal ==
  /\ modalOpen
  /\ modalOpen' = FALSE
  /\ effectDue' = TRUE
  /\ UNCHANGED <<modalStatus, hookSummary, isLoading, hookError, viewRequests,
                 viewEvents, viewFailed, restOfView>>

\* handleStatusChange
HandleStatusChange ==
  /\ modalOpen /\ modalStatus = "Open" /\ Triggered
  /\ viewRequests < MaxViewRequests
  /\ modalStatus' = "In Progress"
  /\ IF hookSummary = "" THEN GenerateSummary
     ELSE UNCHANGED <<isLoading, hookError, viewRequests>>
  /\ effectDue' = TRUE
  /\ UNCHANGED <<modalOpen, hookSummary, restOfView>>

\* handleResolved
HandleResolved ==
  /\ modalOpen /\ modalStatus = "In Progress" /\ Triggered
  /\ modalStatus' = "Resolved"
  /\ effectDue' = TRUE
  /\ UNCHANGED <<modalOpen, hookSummary, isLoading, hookError, viewRequests, restOfView>>

\* the Retry button, shown under the error
Retry ==
  /\ modalOpen /\ IsInvestigating /\ ~isLoading
  /\ ~HasStructuredFormat(hookSummary) /\ hookError # ""
  /\ Triggered
  /\ viewRequests < MaxViewRequests
  /\ GenerateSummary
  /\ effectDue' = TRUE
  /\ UNCHANGED <<modalOpen, modalStatus, hookSummary, restOfView>>

\* the effect of IncidentDetailModal runs after a render that changed one of
\* its dependencies
Effect ==
  /\ effectDue
  /\ IF modalOpen /\ ~HasStructuredFormat(hookSummary) /\ IsInvestigating /\ ~isLoading
     THEN /\ viewRequests < MaxViewRequests
          /\ GenerateSummary
          /\ effectDue' = TRUE
     ELSE /\ effectDue' = FALSE
          /\ UNCHANGED <<isLoading, hookError, viewRequests>>
  /\ UNCHANGED <<modalOpen, modalStatus, hookSummary, viewEvents, viewFailed, restOfView>>

\* generateSummary from the answer on: the summary is kept on a 200, the
\* error otherwise; isLoading falls in both cases
RequestReturns(reply) ==
  /\ isLoading
  /\ isLoading' = FALSE
  /\ IF reply.ok
     THEN /\ hookSummary' = reply.summary
          /\ viewFailed' = (viewFailed \/ ~HasStructuredFormat(reply.summary))
          /\ UNCHANGED hookError
     ELSE /\ hookError' = "Request failed with status 500"
          /\ viewFailed' = TRUE
          /\ UNCHANGED hookSummary
  /\ effectDue' = TRUE
  /\ UNCHANGED <<modalOpen, modalStatus, viewRequests, viewEvents, restOfView>>

NextView ==
  \/ OpenModal
  \/ CloseModal
  \/ HandleStatusChange
  \/ HandleResolved
  \/ Retry
  \/ Effect
  \/ \E reply \in ViewReplies : RequestReturns(reply)

SpecView == InitView /\ [][NextView]_vars

\* C26: after a failed generation (a request error, or a summary that is not
\* in the structured format) the view sends no request to
\* generate-incident-summary in a step that is not a new triggering event
C26_NoRequestAfterFailure ==
  [][viewRequests' > viewRequests /\ viewFailed => viewEvents' > viewEvents]_vars


(***************************************************************************)
(* generateFallbackSummary of process-alerts and parseSummary of the       *)
(* incident view                                                           *)
(***************************************************************************)

\* String.prototype.toLowerCase for a long text, by halves
RECURSIVE LowerText(_)
LowerText(s) ==
  IF Len(s) <= 1 THEN LowerChar(s)
  ELSE LowerText(SubSeq(s, 1, Len(s) \div 2)) \o LowerText(SubSeq(s, Len(s) \div 2 + 1, Len(s)))

\* Array.prototype.join
RECURSIVE Join(_, _)
Join(strings, separator) ==
  IF strings = <<>> THEN ""
  ELSE IF Len(strings) = 1 THEN strings[1]
  ELSE strings[1] \o separator \o Join(Tail(strings), separator)

\* [...new Set(values)]: the values in the order of their first occurrence
RECURSIVE Distinct(_)
Distinct(values) ==
  IF values = <<>> THEN <<>>
  ELSE LET front == Distinct(SubSeq(values, 1, Len(values) - 1))
           last == values[Len(values)]
       IN IF \E k \in DOMAIN front : front[k] = last THEN front ELSE Append(front, last)

RECURSIVE SumOf(_)
SumOf(numbers) == IF numbers = <<>> THEN 0 ELSE Head(numbers) + SumOf(Tail(numbers))

\* avgRisk: Math.round of the mean of the non-null risk scores, 50 if none
AvgRisk(groupAlerts) ==
  LET riskScores == SelectSeq([k \in DOMAIN groupAlerts |-> groupAlerts[k].risk_score],
                              LAMBDA score : score # NullScore)
  IN IF Len(riskScores) > 0
     THEN (2 * SumOf(riskScores) + Len(riskScores)) \div (2 * Len(riskScores))
     ELSE 50

\* computeIncidentConfidence
ComputeIncidentConfidence(groupAlerts, drivers, entities) ==
  LET completeness == IF Len(groupAlerts) >= 3 THEN 25 ELSE IF Len(groupAlerts) >= 2 THEN 15 ELSE 5
      richness == (IF entities.ips # <<>> THEN 10 ELSE 0) + (IF entities.users # <<>> THEN 10 ELSE 0)
                    + (IF entities.assets # <<>> THEN 10 ELSE 0)
      strength == IF Len(drivers) * 10 < 30 THEN Len(drivers) * 10 ELSE 30
      consistency == IF Cardinality({groupAlerts[k].severity : k \in DOMAIN groupAlerts}) = 1
                     THEN 15 ELSE 5
      total == completeness + richness + strength + consistency
      score == IF total < 100 THEN total ELSE 100
  IN [score |-> score,
      interpretation |-> IF score >= 80 THEN "High confidence assessment"
                         ELSE IF score >= 50 THEN "Moderate confidence assessment"
                         ELSE "Low confidence - limited correlation data"]

\* computeFalsePositiveLikelihood
ComputeFalsePositiveLikelihood(groupAlerts, drivers, avgRisk) ==
  IF Len(groupAlerts) >= 3 /\ Len(drivers) >= 2 /\ avgRisk >= 60
  THEN [level |-> "Low",
        rationale |-> "Consistent multi-alert correlation detected with strong driver signals."]
  ELSE IF Len(groupAlerts) >= 2 \/ avgRisk >= 50
  THEN [level |-> "Medium",
        rationale |-> "Moderate correlation signals. Additional validation recommended."]
  ELSE [level |-> "High",
        rationale |-> "Insufficient corroborating evidence. Single-signal correlation may indicate false positive."]

\* values.join(', ') || 'None'
JoinOrNone(values) == IF Join(values, ", ") = "" THEN "None" ELSE Join(values, ", ")

\* generateFallbackSummary (the dashes of two sentences are written "-")
GenerateFallbackSummary(g) ==
  LET count == ToString(Len(g.alerts))
      alertTypes == Join(Distinct([k \in DOMAIN g.alerts |-> g.alerts[k].alert_type]), ", ")
      sources == Join(Distinct([k \in DOMAIN g.alerts |-> g.alerts[k].source_system]), ", ")
      avgRisk == AvgRisk(g.alerts)
      priority == IF avgRisk > 90 THEN "P1 - Immediate response required"
                  ELSE IF avgRisk > 50 THEN "P2 - Urgent attention needed"
                  ELSE "P3 - Standard response timeline"
      confidence == ComputeIncidentConfidence(g.alerts, g.drivers, g.matchedEntities)
      fpLikelihood == ComputeFalsePositiveLikelihood(g.alerts, g.drivers, avgRisk)
      observed == Join([k \in DOMAIN g.alerts |->
                          "- " \o g.alerts[k].alert_type \o " from " \o g.alerts[k].source_system
                               \o " at " \o g.alerts[k].timestamp], "\n")
  IN "ATTACK PATTERN:\n"
     \o g.reason \o ". This incident involves " \o count \o " correlated alert(s) of type: "
     \o alertTypes \o ". Attack originated from: " \o sources \o ".\n\n"
     \o "OBSERVED BEHAVIOR:\n" \o observed \o "\n\n"
     \o "BUSINESS IMPACT:\n"
     \o (IF g.severity = "Critical" \/ g.severity = "High"
         THEN "Potential significant impact on business operations. Immediate investigation required to prevent data breach or service disruption."
         ELSE "Moderate potential impact. Monitor closely and investigate within standard SLA.")
     \o "\n\nPRIORITY LEVEL:\n" \o priority \o "\n\n"
     \o "CONTAINMENT STEPS:\n"
     \o "1. Isolate affected systems if ongoing attack is detected\n"
     \o "2. Block suspicious IP addresses at firewall level\n"
     \o "3. Reset credentials for any compromised accounts\n"
     \o "4. Preserve logs and evidence for forensic analysis\n"
     \o "5. Monitor for lateral movement indicators\n\n"
     \o "ANALYST RECOMMENDATION:\n"
     \o "Review all " \o count \o " correlated alerts in detail. Average risk score: "
     \o ToString(avgRisk)
     \o "/100. Escalate to Tier 2/3 if attack pattern suggests advanced persistent threat (APT).\n\n"
     \o "CORRELATION EVIDENCE:\n"
     \o "INCIDENT ORIGIN: Auto-generated\n"
     \o "TRIGGER RULE: " \o g.triggerRule \o "\n"
     \o "CORRELATION DRIVERS: " \o Join(g.drivers, ", ") \o "\n"
     \o "CORRELATION SUMMARY: " \o g.reason \o "\n"
     \o "MATCHED ENTITIES: IPs: " \o JoinOrNone(g.matchedEntities.ips)
     \o " | Users: " \o JoinOrNone(g.matchedEntities.users)
     \o " | Assets: " \o JoinOrNone(g.matchedEntities.assets) \o "\n"
     \o "SUPPORTING ALERTS: " \o count \o "\n\n"
     \o "CONFIDENCE SCORE: " \o ToString(confidence.score) \o "%\n"
     \o "CONFIDENCE INTERPRETATION: " \o confidence.interpretation \o "\n\n"
     \o "FALSE POSITIVE LIKELIHOOD: " \o fpLikelihood.level \o "\n"
     \o "FALSE POSITIVE RATIONALE: " \o fpLikelihood.rationale \o "\n\n"
     \o "[Rule-based analysis - AI temporarily unavailable]"

\* \s of a regular expression, for the characters of these texts
IsSpace(c) == c \in {" ", "\n", "\t", "\r"}

\* the first position from `from` on where the needle occurs, 0 if nowhere
FirstIndex(s, needle, from) ==
  LET hits == {i \in from..(Len(s) + 1) : MatchAt(s, i, needle)}
  IN IF hits = {} THEN 0 ELSE CHOOSE i \in hits : \A j \in hits : i <= j

\* the first position from `from` on that holds no white space; past the end if none
SkipSpace(s, from) ==
  CHOOSE i \in from..(Len(s) + 1) :
    /\ i = Len(s) + 1 \/ ~IsSpace(CharAt(s, i))
    /\ \A j \in from..(i - 1) : IsSpace(CharAt(s, j))

\* String.prototype.trim
Trim(s) ==
  LET first == SkipSpace(s, 1)
      last == CHOOSE i \in 0..Len(s) :
                /\ i = 0 \/ ~IsSpace(CharAt(s, i))
                /\ \A j \in (i + 1)..Len(s) : IsSpace(CharAt(s, j))
  IN IF first > last THEN "" ELSE SubSeq(s, first, last)

\* get(/HEADER:\s*([\s\S]*?)(?=STOP1|STOP2|$)/i): from the first occurrence of
\* the header, after the white space, up to the nearest stop or the end
Section(summary, header, stops) ==
  LET lower == LowerText(summary)
      at == FirstIndex(lower, header, 1)
      start == SkipSpace(summary, at + Len(header))
      ends == {FirstIndex(lower, stop, start) : stop \in stops} \ {0}
      end == IF ends = {} THEN Len(summary) + 1 ELSE CHOOSE e \in ends : \A f \in ends : e <= f
  IN IF at = 0 THEN "" ELSE Trim(SubSeq(summary, start, end - 1))

\* get(/HEADER:\s*(.+)/i): from the first occurrence of the header, after the
\* white space, the rest of the line
Field(summary, header) ==
  LET lower == LowerText(summary)
      at == FirstIndex(lower, header, 1)
      start == SkipSpace(summary, at + Len(header))
      newline == FirstIndex(summary, "\n", start)
      end == IF newline = 0 THEN Len(summary) + 1 ELSE newline
  IN IF at = 0 \/ start > Len(summary) THEN "" ELSE Trim(SubSeq(summary, start, end - 1))

\* parseSummary
ParseSummary(summary) ==
  [attackPattern |-> Section(summary, "attack pattern:", {"observed behavior:", "business impact:"}),
   observedBehavior |-> Section(summary, "observed behavior:", {"business impact:"}),
   businessImpact |-> Section(summary, "business impact:", {"priority level:"}),
   priorityLevel |-> Section(summary, "priority level:", {"containment steps:"}),
   containmentSteps |-> Section(summary, "containment steps:", {"analyst recommendation:"}),
   recommendation |-> Section(summary, "analyst recommendation:",
                              {"correlation evidence:", "confidence score:", "[rule-based"}),
   incidentOrigin |-> Field(summary, "incident origin:"),
   triggerRule |-> Field(summary, "trigger rule:"),
   correlationDrivers |-> Field(summary, "correlation drivers:"),
   correlationSummary |-> Field(summary, "correlation summary:"),
   matchedEntities |-> Field(summary, "matched entities:"),
   supportingAlerts |-> Field(summary, "supporting alerts:"),
   confidenceScore |-> Field(summary, "confidence score:"),
   confidenceInterpretation |-> Field(summary, "confidence interpretation:"),
   falsePositiveLikelihood |-> Field(summary, "false positive likelihood:"),
   falsePositiveRationale |-> Field(summary, "false positive rationale:"),
   isRuleBased |-> Includes(summary, "[Rule-based analysis")]

\* bound of the model: the alerts of a group
MaxGroupAlerts == 2

\* the alert types and source systems of the alerts that are grouped
GroupAlertTypes ==
  {"Malware Detected", "Data Exfiltration", "Audit PRIORITY LEVEL: CONTAINMENT STEPS:"}
GroupSources == {"Firewall", "EDR"}

\* the groups of rule 6: alerts with a risk score of 75 or more
FormedGroups ==
  {[alerts |-> [k \in 1..n |-> [alert_type |-> type, source_system |-> source,
                                timestamp |-> "2025-01-01T00:00:00+00:00",
                                risk_score |-> risk, severity |-> severity]],
    reason |-> ToString(n) \o " high-risk alert(s) exceeding risk threshold (75+)",
    severity |-> severity,
    drivers |-> <<"Combined risk score threshold exceeded">>,
    matchedEntities |-> [ips |-> ips, users |-> <<>>, assets |-> <<>>],
    triggerRule |-> "risk_threshold"] :
   n \in 1..MaxGroupAlerts, type \in GroupAlertTypes, source \in GroupSources,
   risk \in {75, 95}, severity \in {"High", "Critical"}, ips \in {<<>>, <<"203.0.113.5">>}}

InitNarrative ==
  /\ CoreIdle /\ NarrativeAlone
  /\ formedGroup \in FormedGroups
  /\ summaryText = "" /\ parsed = NoSections /\ narrativePc = "formed"

\* generateIncidentSummary without a provider answer: the rule-based summary
GenerateNarrative ==
  /\ narrativePc = "formed"
  /\ summaryText' = GenerateFallbackSummary(formedGroup)
  /\ narrativePc' = "generated"
  /\ UNCHANGED <<formedGroup, parsed, restOfNarrative>>

\* AIIncidentSummary renders the stored summary
ParseNarrative ==
  /\ narrativePc = "generated"
  /\ parsed' = ParseSummary(summaryText)
  /\ narrativePc' = "parsed"
  /\ UNCHANGED <<formedGroup, summaryText, restOfNarrative>>

NextNarrative == GenerateNarrative \/ ParseNarrative

SpecNarrative == InitNarrative /\ [][NextNarrative]_vars

\* the sections and fields that generateFallbackSummary writes
PopulatedSections ==
  {"attackPattern", "observedBehavior", "businessImpact", "priorityLevel", "containmentSteps",
   "recommendation", "incidentOrigin", "triggerRule", "correlationDrivers",
   "correlationSummary", "matchedEntities", "supportingAlerts", "confidenceScore",
   "confidenceInterpretation", "falsePositiveLikelihood", "falsePositiveRationale"}

\* C27: parsing a summary of the rule-based generator yields non-empty text
\* for every section and every correlation-evidence field the generator wrote
C27_FallbackSummaryParses ==
  narrativePc = "parsed" => \A section \in PopulatedSections : parsed[section] # ""


\* the severities of the weight table
RecognizedSeverities == {"Critical", "High", "Medium", "Low"}

\* C28: the severity that analyze-alert writes back to an alert with a
\* recognized severity is never lower than the severity of the request
C28_SeverityNeverLowered ==
  handlerPc = "stored" /\ request.severity \in RecognizedSeverities =>
    SeverityRank(storedRow.severity) >= SeverityRank(request.severity)

\* a Low alert was stored, and its entities raised it to Critical
C28_Witness ==
  /\ handlerPc = "stored"
  /\ request.severity = "Low" /\ storedRow.severity = "Critical"


(***************************************************************************)
(* analyze-alert called again with the stored alert (SpecReanalyze)        *)
(***************************************************************************)

\* a caller posts the alert as it is stored now: the raw log and type of the
\* insert, the severity the first analysis wrote back; what that analysis read
\* and stored is kept for the comparison
Reanalyse ==
  /\ handlerPc = "stored" /\ firstStored = NoFirst
  /\ firstStored' = [severity |-> storedRow.severity, risk_score |-> storedRow.risk_score,
                     input |-> request.severity]
  /\ request' = [request EXCEPT !.severity = storedRow.severity]
  /\ handlerPc' = "received"
  /\ metrics' = NoMetrics /\ providerKeys' = {} /\ outcomes' = NoOutcomes
  /\ analysis' = NoAnalysis
  /\ UNCHANGED <<storedRow, storeVars, summaryVars, lifecycleVars, cronVars, viewVars,
                 narrativeVars>>

NextReanalyze == ScoreRequest \/ RunProviders \/ UpdateAlert \/ Reanalyse

SpecReanalyze == InitAnalyze /\ [][NextReanalyze]_vars

\* C29: analysing the stored alert again stores the risk_score and the
\* severity that the first analysis stored; stated for the alerts whose
\* severity at the insert is one of the weight table
C29_ReanalysisStoresSame ==
  /\ handlerPc = "stored" /\ firstStored # NoFirst
  /\ firstStored.input \in RecognizedSeverities
  =>
    /\ storedRow.risk_score = firstStored.risk_score
    /\ storedRow.severity = firstStored.severity


(***************************************************************************)
(* Correlation writes that fail (SpecFaulty)                               *)
(***************************************************************************)

\* tryAttachToExistingIncident: the mapping insert returns an error other
\* than a uniqueness violation; the error is not looked at
A_AttachInsertFails(r) ==
  /\ r.pc = "attachInsert"
  /\ AMove(r, [r EXCEPT !.pc = "attachUpdate"])
  /\ UNCHANGED <<alerts, incidents, aim, clock, bruns, batchStarted>>
  /\ UNCHANGED <<analyzeVars, sideVars>>

\* createIncident: the incident insert returns an error and the function returns
A_CreateIncidentFails(r) ==
  /\ r.pc = "create"
  /\ AMove(r, [r EXCEPT !.pc = "done"])
  /\ UNCHANGED <<alerts, incidents, aim, clock, bruns, batchStarted>>
  /\ UNCHANGED <<analyzeVars, sideVars>>

\* createIncident: the mapping insert of the next member returns an error;
\* the error is not looked at
A_MapInsertFails(r) ==
  /\ r.pc = "mapInsert"
  /\ AMove(r, [r EXCEPT !.pc = "mapUpdate"])
  /\ UNCHANGED <<alerts, incidents, aim, clock, bruns, batchStarted>>
  /\ UNCHANGED <<analyzeVars, sideVars>>

NextFaulty ==
  \/ NextArrival
  \/ \E r \in AnalyzeRuns : A_AttachInsertFails(r)
  \/ \E r \in AnalyzeRuns : A_CreateIncidentFails(r)
  \/ \E r \in AnalyzeRuns : A_MapInsertFails(r)

SpecFaulty == InitArrival /\ [][NextFaulty]_vars

\* C30: an alert has status Correlated only if it has a row in
\* alert_incident_map, also after a mapping insert or an incident insert failed
C30_CorrelatedOnlyIfMapped ==
  \A a \in AlertIds : alerts[a].status = "Correlated" => a \in Mapped

====
